---------------------------- MODULE Spec2Model ----------------------------
(***************************************************************************)
(* Anaximander simulator: a model of                                       *)
(*   - the simulation schedulers (sequential, batched-parallel, greedy)    *)
(*     with the trace replay of anaximander_driver.go,                     *)
(*   - the strategy assembler and the overlay-reduction pass,              *)
(*   - the RIB selector (shortest-path and valley-free heuristics).        *)
(* Each subsystem has its own specification over the same variables; the   *)
(* variables of the other subsystems stay at their idle value.             *)
(***************************************************************************)
EXTENDS Integers, Sequences, FiniteSets, TLC

VARIABLES
    \* ---- simulation schedulers (one simulation task, one AS of interest)
    mode,                   \* "sequential" | "parallel" | "greedy"
    sorted_destinations,    \* read_strategy: the ordered targets
    limits_neighbors,       \* read_strategy: the AS limits
    traces,                 \* the recorded traces, keyed by target
    threshold_parameter,    \* tau, a rational <<numerator, denominator>>
    weight_parameters,      \* <<function index, parameters...>>
    ases_status,            \* sequence of AS_status (parallel, greedy)
    stopped_ases,
    iteration,
    pc,                     \* position in the scheduler
    ai,                     \* index of the AS being visited (range loop)
    bi,                     \* i of the batch loop (parallel)
    batch_size,
    discovery,              \* the greedy scheduler's discovery flag
    neighbor_start,         \* sequential
    k,                      \* sequential
    current_plateau_length, \* sequential
    total_length,           \* sequential
    limits_reduction,       \* sequential: the limits written to *_limits_reduction.txt
    global_counter,
    disc,                   \* the discovered_* sets and in_progress_discovered_routers
    prev,                   \* prev_adjs, prev_addresses, prev_routers
    results,                \* the discovery lines, keyed by counter
    replayed,               \* history: per AS, the indices replayed, in order
    seen_addrs,             \* history: router -> addresses processed on hops of the AS of interest
    \* ---- data read by the strategy step and by the RIB selector
    as_neighbors,           \* read_as_rel: AS -> neighbor -> relationship
    \* ---- strategy step (write_strategy, one AS of interest)
    ip2as,                  \* the ip2as file: prefix -> AS
    ppdc,                   \* the customer cone file: AS -> the ASes of its cone
    as_24prefixes,          \* read_ip2as: AS -> its /24 prefixes
    prefix24_as,            \* read_ip2as: /24 prefix -> AS
    as_cc_size,             \* read_customer_cone: AS -> the size of its cone
    break_prefix,           \* as_to_prefixes is as_24prefixes (TRUE) or as_prefixes
    directed_prefixes,      \* the directed prefix file of the AS of interest
    target_to_vp,           \* the SafeSet target (/24) -> VP, with its fake field
    overlay_files,          \* the lines of the collectors' overlay files
    call_ases,              \* the slice of ASes add_AS_probes is called with
    st_pc,                  \* "ready" | "returned", or "adding" | "added" around a
                            \* call of add_AS_probes
    strategy,               \* index in strategy_fc of the strategy that returned
    ordered_targets,        \* the slice s the strategy returned, written to targets.txt
    as_limits,              \* the limits the strategy returned
    as_limits_file,         \* the lines of as_limits.txt
    AS_probes,              \* the AS -> probes map when the strategy returned
    grouped_probes,         \* the AS -> probes map before remove_overlays ran
    \* ---- RIB selector (generate_RIB_parser, one collector)
    bgp_records,            \* the records bgpreader can give for the collector
    task_pc,                \* the task: "idle" | "start" | "waiting" | "cmd_wait" |
                            \*           "post_processing" | "returned"
    rib_pc,                 \* the parser goroutine: "idle" | "scanning" | "sending" | "done"
    heuristic,              \* index in apply_heuristic_fc
    ases_interest,
    nb_records,             \* number of records read from bgpreader
    prev_prefix,
    counter,
    current_routing_entries_set,  \* the bucket of the current prefix
    routing_entries_set,    \* prefix -> selected Rib_entry
    overlays_closure,       \* what process_overlays returned, <<>> before it ran
    forwarding_table,       \* the forwarding table file of the collector
    pivot_nodes,            \* history: prefix -> nodes.pivot_nodes of its last selection
    selected_from,          \* history: prefix -> the as_paths its last selection chose among
    \* ---- the origin-AS set shared by the collector tasks (parse_ribs)
    collector_appends,      \* collector -> the (origin AS, prefix) of its valid records
    origin_set,             \* origin_set.set: origin AS -> prefixes
    origin_mux,             \* origin_set.mux: the collector that holds it, or NoOwner
    collector_pc,           \* collector -> "idle" | "parsing" | "locked" | "got" | "added" | "ended"
    collector_next,         \* collector -> index of its next record
    collector_ok,           \* collector -> the ok that unsafe_get returned
    pool_pc,                \* parse_ribs: "idle" | "pool" | "post_processing"
    \* parse_ribs_dependent and its tasks
    collector_subnets,      \* collector -> the subnets its records give, in their order
    dependent_set,          \* set: subnet -> the bits of the collectors that saw it
    dependent_mux,          \* the mutex of set: NoOwner, or the collector that holds it
    dependent_pc,           \* collector -> "idle" | "parsing" | "get" | "got" | "add" | "ended"
    dependent_next,         \* collector -> index of its next subnet
    dependent_c,            \* collector -> the (c, ok) that set.get returned
    dependent_pool          \* parse_ribs_dependent: "idle" | "pool" | "writing"

schedVars == <<mode, sorted_destinations, limits_neighbors, traces, threshold_parameter,
               weight_parameters, ases_status, stopped_ases, iteration, pc, ai, bi,
               batch_size, discovery, neighbor_start, k, current_plateau_length,
               total_length, limits_reduction, global_counter, disc, prev, results,
               replayed, seen_addrs>>

stratVars == <<ip2as, ppdc, as_24prefixes, prefix24_as, as_cc_size, break_prefix, directed_prefixes, target_to_vp, overlay_files, call_ases,
               st_pc, strategy, ordered_targets, as_limits, as_limits_file, AS_probes,
               grouped_probes>>

ribInputs == <<bgp_records, heuristic, ases_interest>>

ribVars == <<ribInputs, task_pc, rib_pc, nb_records, prev_prefix, counter,
             current_routing_entries_set, routing_entries_set, overlays_closure, forwarding_table,
             pivot_nodes, selected_from>>

dependentVars == <<collector_subnets, dependent_set, dependent_mux, dependent_pc,
                   dependent_next, dependent_c, dependent_pool>>

originVars == <<collector_appends, origin_set, origin_mux, collector_pc, collector_next,
                collector_ok, pool_pc>>

vars == <<schedVars, as_neighbors, stratVars, ribVars, originVars, dependentVars>>

\* The strategy step has not started: nothing is read, nothing is returned
StratIdle ==
    /\ ip2as = <<>>
    /\ ppdc = <<>>
    /\ as_24prefixes = <<>>
    /\ prefix24_as = <<>>
    /\ as_cc_size = <<>>
    /\ break_prefix = TRUE
    /\ directed_prefixes = <<>>
    /\ target_to_vp = [fake |-> "", set |-> <<>>]
    /\ overlay_files = {}
    /\ call_ases = <<>>
    /\ st_pc = "idle"
    /\ strategy = -1
    /\ ordered_targets = <<>>
    /\ as_limits = <<>>
    /\ as_limits_file = <<>>
    /\ AS_probes = <<>>
    /\ grouped_probes = <<>>

\* The RIB selector has not started
RibIdle ==
    /\ bgp_records = {}
    /\ task_pc = "idle"
    /\ rib_pc = "idle"
    /\ heuristic = 0
    /\ ases_interest = <<>>
    /\ nb_records = 0
    /\ prev_prefix = ""
    /\ counter = 0
    /\ current_routing_entries_set = <<>>
    /\ routing_entries_set = <<>>
    /\ overlays_closure = {}
    /\ forwarding_table = <<>>
    /\ pivot_nodes = <<>>
    /\ selected_from = <<>>

\* No collector task runs
NoOwner == ""

OriginIdle ==
    /\ collector_appends = <<>>
    /\ origin_set = <<>>
    /\ origin_mux = NoOwner
    /\ collector_pc = <<>>
    /\ collector_next = <<>>
    /\ collector_ok = <<>>
    /\ pool_pc = "idle"

\* parse_ribs_dependent has not started
DependentIdle ==
    /\ collector_subnets = <<>>
    /\ dependent_set = <<>>
    /\ dependent_mux = NoOwner
    /\ dependent_pc = <<>>
    /\ dependent_next = <<>>
    /\ dependent_c = <<>>
    /\ dependent_pool = "idle"

(***************************************************************************)
(* Bounds of the model                                                     *)
(***************************************************************************)
\* Number of targets of the strategy output replayed by the schedulers.
NTargets == 4

\* Number of probes of the long AS replayed by the sequential scheduler.
Span == 100

\* Number of records read from the table of a collector
MaxRecords == 3

\* Cap on the outer iterations of the parallel and greedy schedulers: the code
\* has none, and needs none as long as every visit advances curr_probe.
MaxIteration == NTargets + 1

(***************************************************************************)
(* Small helpers                                                           *)
(***************************************************************************)
max(a, b) == IF a < b THEN b ELSE a

\* math.Ceil of the rational x/y, x >= 0, y > 0
Ceil(x, y) == (x + y - 1) \div y

\* map[key] = value on a map kept as a function
MapPut(m, key, value) ==
    [x \in (DOMAIN m) \cup {key} |-> IF x = key THEN value ELSE m[x]]

Range(s) == {s[i] : i \in DOMAIN s}

\* The element of a singleton
Only(S) == CHOOSE x \in S : TRUE

(***************************************************************************)
(* The annotation database (ReadSqlite) and the traces (parse_warts)       *)
(***************************************************************************)
as_interest == "I"

Addrs == {"a1", "a2", "a3", "a4", "b1"}

\* addr_to_asn: the ASN bdrmapit gives to an address
addr_to_asn == [a \in Addrs |-> IF a = "b1" THEN "J" ELSE "I"]

\* addr_to_router: "" when the address was not matched to a router
addr_to_router ==
    [a \in Addrs |-> CASE a \in {"a1", "a2", "a3"} -> "r1"
                       [] a = "a4" -> ""
                       [] OTHER -> "r2"]

router_to_asn == [r \in {"r1", "r2"} |-> IF r = "r1" THEN "I" ELSE "J"]

\* A hop as generate_warts_parser builds it
Hop(addr, probe_ttl) ==
    [addr |-> addr, asn |-> addr_to_asn[addr], probe_ttl |-> probe_ttl,
     router |-> addr_to_router[addr]]

RECURSIVE prune_from(_, _, _)
prune_from(trace, i, prevAddr) ==
    IF i > Len(trace) THEN <<>>
    ELSE IF trace[i].addr # prevAddr
         THEN <<trace[i]>> \o prune_from(trace, i + 1, trace[i].addr)
         ELSE prune_from(trace, i + 1, trace[i].addr)

prune_dups(trace) == prune_from(trace, 1, "")

\* A missing trace: traces.get returns (nil, false) and process_trace returns 0
\* without touching any set, as it does on a trace with no hop.
NoTrace == <<>>

\* The raw traces the warts files may hold for a target
RawTraces ==
    { <<Hop("a1", 1), Hop("a2", 2)>>,
      <<Hop("b1", 1), Hop("a3", 2), Hop("a3", 3), Hop("a4", 4)>> }

\* commit_trace: what is stored for a target
StoredTraces == {prune_dups(t) : t \in RawTraces}

\* commit_trace: the adjacencies of one stored trace
TraceAdjs(t) ==
    {<<t[i].addr, t[i + 1].addr>> : i \in {j \in 1..(Len(t) - 1) :
                                            t[j + 1].probe_ttl - t[j].probe_ttl = 1}}

TraceMultiAdjs(t) ==
    {<<t[i].addr, t[i + 1].addr>> : i \in {j \in 1..(Len(t) - 1) :
                                            t[j + 1].probe_ttl - t[j].probe_ttl > 1}}

TraceAddresses(t) == {t[i].addr : i \in 1..Len(t)}

\* parse_warts: the ground truth of a set of committed traces
GroundTruth(ts) ==
    [adjs |-> UNION {TraceAdjs(t) : t \in ts},
     multi_adjs |-> UNION {TraceMultiAdjs(t) : t \in ts},
     addresses |-> UNION {TraceAddresses(t) : t \in ts},
     routers |-> DOMAIN router_to_asn]

\* filterAS: keep only data relevant to the AS of interest
filterAS(AS, g) ==
    [adjs |-> {p \in g.adjs : addr_to_asn[p[1]] = AS \/ addr_to_asn[p[2]] = AS},
     multi_adjs |-> {p \in g.multi_adjs : addr_to_asn[p[1]] = AS \/ addr_to_asn[p[2]] = AS},
     addresses |-> {a \in g.addresses : addr_to_asn[a] = AS},
     routers |-> {r \in g.routers : router_to_asn[r] = AS}]

(***************************************************************************)
(* process_trace                                                           *)
(***************************************************************************)
EmptyDisc ==
    [adjs |-> {}, multi_adjs |-> {}, addresses |-> {}, routers |-> {},
     in_progress |-> [r \in {} |-> {}]]

\* The router bookkeeping of one hop annotated to the AS of interest (mutant:
\* the second address is not compared with the recorded one).
RouterStepNoCompare(d, hop) ==
    IF hop.router = "" THEN d
    ELSE IF hop.router \notin DOMAIN d.in_progress
         THEN [d EXCEPT !.in_progress = MapPut(@, hop.router, {hop.addr})]
         ELSE IF Cardinality(d.in_progress[hop.router]) = 1
              THEN [d EXCEPT !.routers = @ \cup {hop.router},
                             !.in_progress = MapPut(@, hop.router,
                                                    @[hop.router] \cup {hop.addr})]
              ELSE d

\* The router bookkeeping of one hop annotated to the AS of interest.
RouterStep(d, hop) ==
    IF hop.router = "" THEN d
    ELSE IF hop.router \notin DOMAIN d.in_progress
         THEN [d EXCEPT !.in_progress = MapPut(@, hop.router, {hop.addr})]
         ELSE IF Cardinality(d.in_progress[hop.router]) = 1
                 /\ hop.addr \notin d.in_progress[hop.router]
              THEN [d EXCEPT !.routers = @ \cup {hop.router},
                             !.in_progress = MapPut(@, hop.router,
                                                    @[hop.router] \cup {hop.addr})]
              ELSE d

\* One iteration of the loop over the hops of a trace.
HopStep(d, trace, i) ==
    LET hop == trace[i]
        d1  == IF hop.asn = as_interest
               THEN RouterStep([d EXCEPT !.addresses = @ \cup {hop.addr}], hop)
               ELSE d
    IN  IF i = Len(trace) THEN d1
        ELSE IF hop.asn # as_interest /\ trace[i + 1].asn # as_interest THEN d1
        ELSE LET next_hop == trace[i + 1]
                 distance == next_hop.probe_ttl - hop.probe_ttl
             IN  IF distance = 1
                 THEN [d1 EXCEPT !.adjs = @ \cup {<<hop.addr, next_hop.addr>>}]
                 ELSE IF distance > 1
                      THEN [d1 EXCEPT !.multi_adjs = @ \cup {<<hop.addr, next_hop.addr>>}]
                      ELSE d1

RECURSIVE process_hops(_, _, _)
process_hops(d, trace, i) ==
    IF i > Len(trace) THEN d
    ELSE Only({process_hops(d1, trace, i + 1) : d1 \in {HopStep(d, trace, i)}})

\* process_trace: the discovered sets after the trace
process_trace(d, trace) ==
    IF trace = NoTrace THEN d ELSE process_hops(d, trace, 1)

\* process_trace: its return value, the hops annotated to the AS of interest
trace_discovery(trace) ==
    IF trace = NoTrace THEN 0
    ELSE Cardinality({i \in 1..Len(trace) : trace[i].asn = as_interest})

\* history: the (router, address) pairs of the hops annotated to the AS of interest
TraceRouterAddrs(trace) ==
    IF trace = NoTrace THEN {}
    ELSE {<<trace[i].router, trace[i].addr>> :
            i \in {j \in 1..Len(trace) : trace[j].asn = as_interest /\ trace[j].router # ""}}

(***************************************************************************)
(* The strategy output replayed by the schedulers                          *)
(***************************************************************************)
\* "" as a destination: nothing to probe
NoDestination == 0

Targets == 1..NTargets

RECURSIVE SortedSeq(_)
SortedSeq(S) ==
    IF S = {} THEN <<>>
    ELSE LET m == CHOOSE x \in S : \A y \in S : x <= y
         IN  <<m>> \o SortedSeq(S \ {m})

\* read_strategy: the limits of a strategy file, as write_strategy writes them
\* (a limit equal to the previous one is not written; the previous one starts at 0)
LimitsOf(S) ==
    LET l == SortedSeq(S) IN [i \in 1..Len(l) |-> [asn |-> i, limit |-> l[i]]]

TraceChoices == StoredTraces \cup {NoTrace}

\* The filtered ground truth of the simulation
truth == filterAS(as_interest, GroundTruth(Range(traces) \ {NoTrace}))

(***************************************************************************)
(* AS_status and the weight functions                                      *)
(***************************************************************************)
RECURSIVE build_status(_, _, _)
build_status(limits, i, start) ==
    IF i > Len(limits) THEN <<>>
    ELSE IF limits[i].limit = start THEN build_status(limits, i + 1, start)
    ELSE <<[asn |-> limits[i].asn, start |-> start, end |-> limits[i].limit,
            curr_probe |-> start, plateau |-> 0, stopped |-> FALSE,
            position |-> i - 1]>>
         \o build_status(limits, i + 1, limits[i].limit)

\* as_conesize: the customer cone sizes read from the CAIDA ppdc file
as_conesize == [a \in {1, 2} |-> IF a = 1 THEN 2 ELSE 3]

max_conesize == CHOOSE m \in Range(as_conesize) : \A x \in Range(as_conesize) : x <= m

\* The weight parameters of the command line: <<function, parameters>>, a
\* parameter being the rational <<numerator, denominator>>
WeightChoices ==
    { <<0, <<1, 2>> >>,
      <<1, <<1, 2>> >>,
      <<2, <<1, 2>>, <<1, 1>> >>,
      <<3, <<1, 3>> >> }

generate_constant(parameters, as, it) == max(parameters[2][1] \div parameters[2][2], 1)

\* parameter = (d * n)/(1 - d), weight = parameter/(x + parameter), for d = dn/dd:
\* weight * span = (dn * n * span) / (x * (dd - dn) + dn * n)
InverseBatch(d, n, x, span) == Ceil(d[1] * n * span, x * (d[2] - d[1]) + d[1] * n)

generate_weight_inverse(parameters, nb_ases, as, it) ==
    max(InverseBatch(parameters[2], nb_ases, as.position, as.end - as.start), 1)

generate_weight_inverse_iteration_reduction(parameters, nb_ases, as, it) ==
    LET first  == InverseBatch(parameters[2], nb_ases, as.position, as.end - as.start)
        second == parameters[3]
    IN  max(Ceil(second[1] * first, it * second[2] + second[1]), 1)

generate_weight_cc_size(parameters, as, it) ==
    IF as.position = 0 THEN as.end - as.start
    ELSE LET cc_size == IF as.asn \in DOMAIN as_conesize THEN as_conesize[as.asn] ELSE 1
         IN  max(InverseBatch(parameters[2], max_conesize, cc_size, as.end - as.start), 1)

weight_function(parameters, nb_ases, as, it) ==
    CASE parameters[1] = 0 -> generate_constant(parameters, as, it)
      [] parameters[1] = 1 -> generate_weight_inverse(parameters, nb_ases, as, it)
      [] parameters[1] = 2 -> generate_weight_inverse_iteration_reduction(parameters, nb_ases, as, it)
      [] OTHER -> generate_weight_cc_size(parameters, as, it)

(***************************************************************************)
(* One probe of the simulation                                             *)
(***************************************************************************)
\* plateau/(end - start) >= threshold_parameter (mutant)
plateau_reached_or_equal(plateau, span, tau) == plateau * tau[2] >= tau[1] * span

\* plateau/(end - start) > threshold_parameter, on rationals
plateau_reached(plateau, span, tau) == plateau * tau[2] > tau[1] * span

\* launch_as_probing that does not advance a stopped AS (mutant)
launch_as_probing_stuck(destinations, as, _stopped_ases) ==
    LET destination == IF as.curr_probe >= as.end
                       THEN NoDestination
                       ELSE destinations[as.curr_probe + 1]
    IN  [destination |-> destination,
         as_status |-> [as EXCEPT !.curr_probe = IF destination = NoDestination
                                                 THEN @ ELSE @ + 1],
         stopped_ases |-> _stopped_ases]

\* launch_as_probing that skips every other target (mutant)
launch_as_probing_skipping(destinations, as, _stopped_ases) ==
    LET destination == IF as.stopped \/ as.curr_probe >= as.end
                       THEN NoDestination
                       ELSE destinations[as.curr_probe + 1]
        hit == as.curr_probe + 2 >= as.end /\ ~as.stopped
    IN  [destination |-> destination,
         as_status |-> [as EXCEPT !.curr_probe = @ + 2,
                                  !.stopped = IF hit THEN TRUE ELSE @],
         stopped_ases |-> IF hit THEN _stopped_ases + 1 ELSE _stopped_ases]

\* launch_as_probing that returns the targets of a stopped AS (mutant)
launch_as_probing_after_stop(destinations, as, _stopped_ases) ==
    LET destination == IF as.curr_probe >= as.end
                       THEN NoDestination
                       ELSE destinations[as.curr_probe + 1]
        hit == as.curr_probe + 1 = as.end /\ ~as.stopped
    IN  [destination |-> destination,
         as_status |-> [as EXCEPT !.curr_probe = @ + 1,
                                  !.stopped = IF hit THEN TRUE ELSE @],
         stopped_ases |-> IF hit THEN _stopped_ases + 1 ELSE _stopped_ases]

launch_as_probing(destinations, as, _stopped_ases) ==
    LET destination == IF as.stopped \/ as.curr_probe >= as.end
                       THEN NoDestination
                       ELSE destinations[as.curr_probe + 1]
        hit == as.curr_probe + 1 = as.end /\ ~as.stopped
    IN  [destination |-> destination,
         as_status |-> [as EXCEPT !.curr_probe = @ + 1,
                                  !.stopped = IF hit THEN TRUE ELSE @],
         stopped_ases |-> IF hit THEN _stopped_ases + 1 ELSE _stopped_ases]

\* The plateau branch without the test on the stopped flag (mutant)
plateau_stop_unguarded(as, _stopped_ases) ==
    [as_status |-> [as EXCEPT !.stopped = TRUE], stopped_ases |-> _stopped_ases + 1]

\* The plateau branch: stop the AS unless its last probe already stopped it
plateau_stop(as, _stopped_ases) ==
    IF as.stopped = FALSE
    THEN [as_status |-> [as EXCEPT !.stopped = TRUE], stopped_ases |-> _stopped_ases + 1]
    ELSE [as_status |-> as, stopped_ases |-> _stopped_ases]

\* new_adjs, new_addresses, new_routers
counters(d) == <<Cardinality(d.adjs), Cardinality(d.addresses), Cardinality(d.routers)>>

\* The four fractions of a discovery line, each <<numerator, denominator>>
discovered_line(d, gt) ==
    [adjs |-> <<Cardinality(d.adjs), Cardinality(gt.adjs)>>,
     multi_adjs |-> <<Cardinality(d.multi_adjs), Cardinality(gt.multi_adjs)>>,
     addresses |-> <<Cardinality(d.addresses), Cardinality(gt.addresses)>>,
     routers |-> <<Cardinality(d.routers), Cardinality(gt.routers)>>]

\* The body of the probing loop of anaximander_parallel and anaximander_greedy
\* once launch_as_probing has returned l and process_trace has left the sets
\* `after`.  exit is "empty" when there was nothing to probe, "plateau" when the
\* plateau stopped the batch.
probe_outcome(l, after) ==
    IF l.destination = NoDestination
    THEN [exit |-> "empty", found |-> FALSE, as_status |-> l.as_status,
          stopped_ases |-> l.stopped_ases, disc |-> disc, prev |-> prev,
          results |-> results, global_counter |-> global_counter]
    ELSE IF counters(after) # prev
    THEN [exit |-> "no", found |-> TRUE,
          as_status |-> [l.as_status EXCEPT !.plateau = 0],
          stopped_ases |-> l.stopped_ases, disc |-> after, prev |-> counters(after),
          results |-> MapPut(results, global_counter, discovered_line(after, truth)),
          global_counter |-> global_counter + 1]
    ELSE LET as1 == [l.as_status EXCEPT !.plateau = @ + 1]
         IN  IF plateau_reached(as1.plateau, as1.end - as1.start, threshold_parameter)
             THEN LET s == plateau_stop(as1, l.stopped_ases)
                  IN  [exit |-> "plateau", found |-> FALSE, as_status |-> s.as_status,
                       stopped_ases |-> s.stopped_ases, disc |-> after, prev |-> prev,
                       results |-> results, global_counter |-> global_counter]
             ELSE [exit |-> "no", found |-> FALSE, as_status |-> as1,
                   stopped_ases |-> l.stopped_ases, disc |-> after, prev |-> prev,
                   results |-> results, global_counter |-> global_counter + 1]

\* The sets after the trace of the destination has been processed, if any
probed(l) ==
    IF l.destination = NoDestination THEN disc
    ELSE process_trace(disc, traces[l.destination])

\* One iteration of the probing loop, from launch_as_probing on
probe_step(as, _stopped_ases) ==
    Only({ Only({probe_outcome(l, after) : after \in {probed(l)}}) :
           l \in {launch_as_probing(sorted_destinations, as, _stopped_ases)} })

\* history of a probe: the index replayed and the router addresses processed
Replay(i, index) == [replayed EXCEPT ![i] = Append(@, index)]

Seen(trace) == seen_addrs \cup TraceRouterAddrs(trace)

(***************************************************************************)
(* The schedulers                                                          *)
(***************************************************************************)
TauChoices == { <<0, 1>>, <<1, 2>> }

SchedStart(m, limits, tr, tau, w) ==
    /\ mode = m
    /\ sorted_destinations = [i \in 1..Len(tr) |-> i]
    /\ limits_neighbors = limits
    /\ traces = tr
    /\ threshold_parameter = tau
    /\ weight_parameters = w
    /\ ases_status = IF m = "sequential" THEN <<>> ELSE build_status(limits, 1, 0)
    /\ stopped_ases = 0
    /\ iteration = 0
    /\ pc = IF m = "sequential" THEN "neighbors" ELSE "outer"
    /\ ai = 1
    /\ bi = 0
    /\ batch_size = 0
    /\ discovery = TRUE
    /\ neighbor_start = 0
    /\ k = 0
    /\ current_plateau_length = 0
    /\ total_length = 0
    /\ limits_reduction = <<>>
    /\ global_counter = 0
    /\ disc = EmptyDisc
    /\ prev = <<0, 0, 0>>
    /\ results = <<>>
    /\ replayed = [i \in 1..Len(limits) |-> <<>>]
    /\ seen_addrs = {}

InitSched ==
    \E m \in {"sequential", "parallel", "greedy"}, S \in SUBSET Targets,
       tr \in [Targets -> TraceChoices], tau \in TauChoices, w \in WeightChoices :
        /\ m # "parallel" => w = <<0, <<1, 2>> >>
        /\ SchedStart(m, LimitsOf(S), tr, tau, w)
        /\ as_neighbors = <<>> /\ StratIdle /\ RibIdle /\ OriginIdle /\ DependentIdle

seqOnly == <<neighbor_start, k, current_plateau_length, total_length, limits_reduction>>
parOnly == <<ases_status, stopped_ases, iteration, bi, batch_size, discovery>>
inputs  == <<mode, sorted_destinations, limits_neighbors, traces, threshold_parameter,
             weight_parameters>>

\* for stopped_ases != len (ases_status): enter the loop over the ASes
OuterLoop ==
    /\ pc = "outer" /\ mode \in {"parallel", "greedy"}
    /\ stopped_ases # Len(ases_status)
    /\ ai' = 1
    /\ pc' = "ases"
    /\ UNCHANGED <<as_neighbors, stratVars, ribVars, originVars, dependentVars, inputs, parOnly, seqOnly, global_counter, disc, prev, results,
                   replayed, seen_addrs>>

\* the outer loop ends: the results are written
OuterExit ==
    /\ pc = "outer" /\ mode \in {"parallel", "greedy"}
    /\ stopped_ases = Len(ases_status)
    /\ pc' = "done"
    /\ UNCHANGED <<as_neighbors, stratVars, ribVars, originVars, dependentVars, inputs, parOnly, seqOnly, ai, global_counter, disc, prev, results,
                   replayed, seen_addrs>>

\* for _, as_status := range ases_status: the next AS, with its batch size
VisitAS ==
    /\ pc = "ases" /\ ai <= Len(ases_status)
    /\ batch_size' = IF mode = "parallel"
                     THEN weight_function(weight_parameters, Len(ases_status),
                                          ases_status[ai], iteration)
                     ELSE batch_size
    /\ bi' = 0
    /\ discovery' = TRUE
    /\ pc' = "probe"
    /\ UNCHANGED <<as_neighbors, stratVars, ribVars, originVars, dependentVars, inputs, ases_status, stopped_ases, iteration, seqOnly, ai,
                   global_counter, disc, prev, results, replayed, seen_addrs>>

\* the range loop is over: iteration++
EndIteration ==
    /\ pc = "ases" /\ ai > Len(ases_status)
    /\ iteration < MaxIteration
    /\ iteration' = iteration + 1
    /\ pc' = "outer"
    /\ UNCHANGED <<as_neighbors, stratVars, ribVars, originVars, dependentVars, inputs, ases_status, stopped_ases, bi, batch_size, discovery, seqOnly,
                   ai, global_counter, disc, prev, results, replayed, seen_addrs>>

\* The effect of one probe_step on the variables both schedulers share
ApplyProbe(r) ==
    /\ ases_status' = [ases_status EXCEPT ![ai] = r.as_status]
    /\ stopped_ases' = r.stopped_ases
    /\ disc' = r.disc
    /\ prev' = r.prev
    /\ results' = r.results
    /\ global_counter' = r.global_counter
    /\ IF r.exit = "empty"
       THEN UNCHANGED <<replayed, seen_addrs>>
       ELSE /\ replayed' = Replay(ases_status[ai].position + 1, ases_status[ai].curr_probe)
            /\ seen_addrs' = Seen(traces[sorted_destinations[ases_status[ai].curr_probe + 1]])

\* anaximander_parallel: one iteration of for i := 0; i < batch_size; i++
ParallelProbe ==
    /\ pc = "probe" /\ mode = "parallel"
    /\ IF bi >= batch_size
       THEN /\ ai' = ai + 1
            /\ pc' = "ases"
            /\ UNCHANGED <<parOnly, global_counter, disc, prev, results, replayed, seen_addrs>>
       ELSE \E r \in {probe_step(ases_status[ai], stopped_ases)} :
                /\ ApplyProbe(r)
                /\ IF r.exit = "no"
                   THEN bi' = bi + 1 /\ UNCHANGED <<ai, pc>>
                   ELSE ai' = ai + 1 /\ pc' = "ases" /\ UNCHANGED bi
                /\ UNCHANGED <<iteration, batch_size, discovery>>
    /\ UNCHANGED <<as_neighbors, stratVars, ribVars, originVars, dependentVars, inputs, seqOnly>>

\* Mutation of greedy_discovery: the AS at position 0 is treated as the others
greedy_discovery_every_position(r, as) ==
    IF r.exit # "empty" /\ ~r.found THEN FALSE ELSE discovery

\* anaximander_greedy: the discovery flag after a probe; a probe of an AS
\* that is not at position 0 and discovers nothing clears it
greedy_discovery(r, as) ==
    IF r.exit # "empty" /\ ~r.found /\ as.position # 0 THEN FALSE ELSE discovery

\* anaximander_greedy: one iteration of for discovery
GreedyProbe ==
    /\ pc = "probe" /\ mode = "greedy"
    /\ IF ~discovery
       THEN /\ ai' = ai + 1
            /\ pc' = "ases"
            /\ UNCHANGED <<parOnly, global_counter, disc, prev, results, replayed, seen_addrs>>
       ELSE \E r \in {probe_step(ases_status[ai], stopped_ases)} :
                /\ ApplyProbe(r)
                /\ discovery' = greedy_discovery(r, ases_status[ai])
                /\ IF r.exit = "no"
                   THEN UNCHANGED <<ai, pc>>
                   ELSE ai' = ai + 1 /\ pc' = "ases"
                /\ UNCHANGED <<iteration, batch_size, bi>>
    /\ UNCHANGED <<as_neighbors, stratVars, ribVars, originVars, dependentVars, inputs, seqOnly>>

\* anaximander_sequential: for _, AS := range limits_neighbors
NextNeighbor ==
    /\ pc = "neighbors" /\ mode = "sequential" /\ ai <= Len(limits_neighbors)
    /\ IF limits_neighbors[ai].limit = neighbor_start
       THEN /\ ai' = ai + 1
            /\ UNCHANGED <<pc, k, current_plateau_length>>
       ELSE /\ k' = neighbor_start
            /\ current_plateau_length' = 0
            /\ pc' = "prefixes"
            /\ UNCHANGED ai
    /\ UNCHANGED <<as_neighbors, stratVars, ribVars, originVars, dependentVars, inputs, parOnly, neighbor_start, total_length, limits_reduction,
                   global_counter, disc, prev, results, replayed, seen_addrs>>

\* anaximander_sequential: one iteration of the loop over the prefixes of a neighbor
SequentialProbe ==
    /\ pc = "prefixes" /\ mode = "sequential" /\ k < limits_neighbors[ai].limit
    /\ \E after \in {process_trace(disc, traces[sorted_destinations[k + 1]])} :
       LET neighbor_stop == limits_neighbors[ai].limit
           trace == traces[sorted_destinations[k + 1]]
           found == counters(after) # prev
           plateau == IF found THEN 0 ELSE current_plateau_length + 1
           stop == ~found /\ plateau_reached(plateau, neighbor_stop - neighbor_start,
                                             threshold_parameter)
       IN  /\ disc' = after
           /\ prev' = IF found THEN counters(after) ELSE prev
           /\ results' = IF found
                         THEN MapPut(results, global_counter, discovered_line(after, truth))
                         ELSE results
           /\ current_plateau_length' = plateau
           /\ global_counter' = global_counter + 1
           /\ k' = k + 1
           /\ pc' = IF stop THEN "recorded" ELSE pc
           /\ replayed' = Replay(ai, k)
           /\ seen_addrs' = Seen(trace)
    /\ UNCHANGED <<as_neighbors, stratVars, ribVars, originVars, dependentVars, inputs, parOnly, ai, neighbor_start, total_length, limits_reduction>>

\* anaximander_sequential: record the neighbor's new limit, go to the next neighbor
EndNeighbor ==
    /\ mode = "sequential"
    /\ pc = "recorded" \/ (pc = "prefixes" /\ k >= limits_neighbors[ai].limit)
    /\ total_length' = total_length + (k - neighbor_start)
    /\ limits_reduction' = Append(limits_reduction, total_length + (k - neighbor_start))
    /\ neighbor_start' = limits_neighbors[ai].limit
    /\ ai' = ai + 1
    /\ pc' = "neighbors"
    /\ UNCHANGED <<as_neighbors, stratVars, ribVars, originVars, dependentVars, inputs, parOnly, k, current_plateau_length, global_counter, disc, prev,
                   results, replayed, seen_addrs>>

\* anaximander_sequential: the loop over the neighbors is over, the results are written
SequentialExit ==
    /\ pc = "neighbors" /\ mode = "sequential" /\ ai > Len(limits_neighbors)
    /\ pc' = "done"
    /\ UNCHANGED <<as_neighbors, stratVars, ribVars, originVars, dependentVars, inputs, parOnly, seqOnly, ai, global_counter, disc, prev, results,
                   replayed, seen_addrs>>

NextSched ==
    \/ OuterLoop
    \/ OuterExit
    \/ VisitAS
    \/ EndIteration
    \/ ParallelProbe
    \/ GreedyProbe
    \/ NextNeighbor
    \/ SequentialProbe
    \/ EndNeighbor
    \/ SequentialExit

SpecSched == InitSched /\ [][NextSched]_vars

\* A trace that discovers an address of its own, for every target but those
\* that share an address
OwnTrace(t) == <<Hop(<<"a1", "a2", "a3", "a4">>[((t - 1) % 4) + 1], 1)>>

\* The parallel and greedy schedulers, on traces that are missing or discover
\* something of their own
InitOuter ==
    \E m \in {"parallel", "greedy"}, S \in SUBSET Targets,
       D \in SUBSET Targets, tau \in TauChoices, w \in WeightChoices :
        /\ m # "parallel" => w = <<0, <<1, 2>> >>
        /\ SchedStart(m, LimitsOf(S),
                      [t \in Targets |-> IF t \in D THEN OwnTrace(t) ELSE NoTrace], tau, w)
        /\ as_neighbors = <<>> /\ StratIdle /\ RibIdle /\ OriginIdle /\ DependentIdle

NextOuter ==
    \/ OuterLoop
    \/ OuterExit
    \/ VisitAS
    \/ EndIteration
    \/ ParallelProbe
    \/ GreedyProbe

\* The simulation runs in one goroutine that nothing blocks: a step that is
\* possible is taken.
SpecOuterFair == InitOuter /\ [][NextOuter]_vars /\ WF_vars(NextOuter)

\* The sequential scheduler on an AS of Span probes followed by an AS of two,
\* with tau = 0.1 and at most one trace that discovers something
InitLongAS ==
    \E D \in 1..(Span + 3) :
        SchedStart("sequential",
                   <<[asn |-> 1, limit |-> Span], [asn |-> 2, limit |-> Span + 2]>>,
                   [t \in 1..(Span + 2) |->
                       IF t = D THEN <<Hop("a1", 1), Hop("a2", 2)>> ELSE NoTrace],
                   <<1, 10>>, <<0, <<1, 2>> >>)
        /\ as_neighbors = <<>> /\ StratIdle /\ RibIdle /\ OriginIdle /\ DependentIdle

NextSequential ==
    \/ NextNeighbor
    \/ SequentialProbe
    \/ EndNeighbor
    \/ SequentialExit

SpecLongAS == InitLongAS /\ [][NextSequential]_vars

(***************************************************************************)
(* Properties of the schedulers                                            *)
(***************************************************************************)
Stopped == {i \in DOMAIN ases_status : ases_status[i].stopped}

AllProbed(i) ==
    Len(replayed[ases_status[i].position + 1]) = ases_status[i].end - ases_status[i].start

\* C1: in the parallel and greedy schedulers stopped_ases is, in every state, the
\* number of AS_status whose stopped flag is set; a flag never goes back to false
\* (so it is set at most once); stopped_ases never decreases and never exceeds the
\* number of ASes, also when an AS consumes its last probe and exceeds the plateau
\* threshold on that same probe.
C1_StoppedCount ==
    /\ [](/\ stopped_ases = Cardinality(Stopped)
          /\ stopped_ases <= Len(ases_status))
    /\ [][/\ \A i \in DOMAIN ases_status : ases_status[i].stopped => ases_status'[i].stopped
          /\ stopped_ases' >= stopped_ases]_vars

\* C1 witness: an AS whose last probe was consumed and made no discovery, the
\* plateau threshold being exceeded on that same probe.
C1_Witness ==
    \E i \in DOMAIN ases_status :
        /\ AllProbed(i)
        /\ ases_status[i].stopped
        /\ plateau_reached(ases_status[i].plateau,
                           ases_status[i].end - ases_status[i].start, threshold_parameter)
        /\ stopped_ases < Len(ases_status)

\* C2: the outer loop of the parallel and greedy schedulers terminates, and when
\* it does every AS is stopped.
C2_Terminates ==
    <>(pc = "done" /\ stopped_ases = Len(ases_status) /\ Stopped = DOMAIN ases_status)

\* C2 witness: the greedy scheduler is done after several outer iterations
\* over several ASes.
C2_Witness ==
    /\ pc = "done" /\ mode = "greedy"
    /\ Len(ases_status) >= 2 /\ iteration >= 2
    /\ Stopped = DOMAIN ases_status

AsStart(i) == IF i = 1 THEN 0 ELSE limits_neighbors[i - 1].limit

\* C3: the probes replayed for one AS are the indices start, start + 1, ... of
\* its range [start, end), in that order: strictly increasing, each index at
\* most once, none outside the range.
C3_ReplayInOrder ==
    \A i \in DOMAIN replayed :
        \A j \in 1..Len(replayed[i]) :
            /\ replayed[i][j] = AsStart(i) + j - 1
            /\ replayed[i][j] < limits_neighbors[i].limit

\* C3 witness: the parallel scheduler has replayed a whole AS of three probes
\* or more, in more than one visit.
C3_Witness ==
    /\ mode = "parallel" /\ iteration >= 1
    /\ \E i \in DOMAIN replayed :
          /\ Len(replayed[i]) >= 3
          /\ Len(replayed[i]) = limits_neighbors[i].limit - AsStart(i)

Fractions(line) == {line.adjs, line.multi_adjs, line.addresses, line.routers}

\* C7: every discovery line holds four fractions in [0, 1]: each numerator is
\* at most its denominator and no denominator is zero.
C7_FractionsInUnitInterval ==
    \A c \in DOMAIN results :
        \A f \in Fractions(results[c]) : f[2] > 0 /\ f[1] <= f[2]

Addresses(router) == {p[2] : p \in {q \in seen_addrs : q[1] = router}}

\* C8: a router is in discovered_routers exactly when two distinct addresses of
\* it, or more, were seen on processed hops annotated to the AS of interest
\* (seeing one address again never promotes it), and at most two addresses are
\* stored per router.
C8_RouterNeedsTwoAddresses ==
    /\ \A r \in DOMAIN router_to_asn :
          r \in disc.routers <=> Cardinality(Addresses(r)) >= 2
    /\ \A r \in DOMAIN disc.in_progress :
          /\ Cardinality(disc.in_progress[r]) <= 2
          /\ disc.in_progress[r] \subseteq Addresses(r)

\* C8 witness: three addresses of a router were seen, two are stored, and the
\* router is discovered.
C8_Witness ==
    \E r \in disc.routers :
        Cardinality(Addresses(r)) = 3 /\ Cardinality(disc.in_progress[r]) = 2

NoDiscoveryUpTo(n) == \A t \in 1..n : traces[t] = NoTrace

\* C9 (as amended): in the sequential scheduler, for an AS of 100 probes and
\* tau = 0.1, when the first 11 probes of the AS yield no discovery the scheduler
\* stops the AS after exactly 11 consecutive probes without discovery (the first
\* plateau p with p/100 > 0.1), records one limit for it, and goes on with the
\* next AS at the start of its own range.
C9_StopsAfterEleven ==
    NoDiscoveryUpTo(11) =>
        /\ Len(replayed[1]) <= 11
        /\ Len(limits_reduction) = ai - 1
        /\ Len(limits_reduction) >= 1 =>
              Len(replayed[1]) = 11 /\ limits_reduction[1] = 11
        /\ Len(replayed[2]) >= 1 =>
              Len(limits_reduction) >= 1 /\ replayed[2][1] = limits_neighbors[1].limit

\* C9 witness: the long AS was stopped after 11 probes, and the next AS probed.
C9_Witness ==
    /\ NoDiscoveryUpTo(11)
    /\ limits_neighbors[1].limit >= 100
    /\ limits_reduction # <<>> /\ limits_reduction[1] = 11
    /\ Len(replayed[2]) >= 1

\* C9 (as stated): the scheduler stops the AS after exactly 10 consecutive
\* probes without discovery.
C9_StopsAfterTen ==
    (NoDiscoveryUpTo(10) /\ Len(limits_reduction) >= 1) =>
        Len(replayed[1]) = 10 /\ limits_reduction[1] = 10

(***************************************************************************)
(* The files the strategy step reads                                       *)
(***************************************************************************)
\* Relationship of a neighbor with an AS, as the iota constants order them
Customer == 0
Peer == 1
Provider == 2
Unknown == 3

\* The value of a map at a key, or the zero value (an empty map) without it
Lookup(m, key) == IF key \in DOMAIN m THEN m[key] ELSE <<>>

\* The set a key maps to, or the empty set without it
LookupSet(m, key) == IF key \in DOMAIN m THEN m[key] ELSE {}

\* All the orders in which a range loop can walk the keys of a map
RECURSIVE Orders(_)
Orders(S) ==
    IF S = {} THEN {<<>>}
    ELSE UNION {{<<x>> \o t : t \in Orders(S \ {x})} : x \in S}

\* The lines of an as-rel file: <<provider, customer, "-1">> or <<peer, peer, "0">>
AsRelChoices ==
    { { <<"I", "A", "-1">>, <<"B", "I", "-1">>, <<"A", "C", "-1">> },
      { <<"I", "A", "0">>, <<"I", "B", "-1">>, <<"I", "C", "-1">> },
      { <<"A", "C", "0">> } }

\* The relationships a line gives: <<AS, neighbor, relationship>>
line_relationships(l) ==
    IF l[3] = "0" THEN {<<l[1], l[2], Peer>>, <<l[2], l[1], Peer>>}
    ELSE IF l[3] = "-1" THEN {<<l[1], l[2], Customer>>, <<l[2], l[1], Provider>>}
    ELSE {}

read_as_rel(lines) ==
    LET rels == UNION {line_relationships(l) : l \in lines}
    IN  [a \in {r[1] : r \in rels} |->
            [b \in {r[2] : r \in {q \in rels : q[1] = a}} |->
                (CHOOSE r \in rels : r[1] = a /\ r[2] = b)[3]]]

get_relationship(AS_interest, AS) ==
    IF AS_interest \in DOMAIN as_neighbors /\ AS \in DOMAIN as_neighbors[AS_interest]
    THEN as_neighbors[AS_interest][AS]
    ELSE Unknown

\* Prefixes: three /24 and the /23 that holds the first two of them
P24 == {"p1", "p2", "p3"}
RawPrefixes == P24 \cup {"g12"}

\* Larger prefixes: the mask length of each
Blocks == [b22a |-> 22, b22b |-> 22, b19 |-> 19, b18 |-> 18]

\* get_subnets (network, 24)
get_subnets(prefix) ==
    IF prefix = "g12" THEN {"p1", "p2"}
    ELSE IF prefix \in DOMAIN Blocks
         THEN {prefix \o "." \o ToString(i) : i \in 1..(2 ^ (24 - Blocks[prefix]))}
         ELSE {prefix}

extract_mask_length(prefix) ==
    IF prefix = "g12" THEN 23
    ELSE IF prefix \in DOMAIN Blocks THEN Blocks[prefix] ELSE 24

\* The /24 a probe can become: itself when it is a /24, else a random /24 in it
_get_24_prefix(probe) == IF probe \in P24 THEN {probe} ELSE get_subnets(probe)

\* The slices of /24 a slice of probes can become, _get_24_prefix on each
RECURSIVE Picks(_)
Picks(probes) ==
    IF probes = <<>> THEN {<<>>}
    ELSE {<<x>> \o rest : x \in _get_24_prefix(Head(probes)), rest \in Picks(Tail(probes))}

\* The ip2as files: prefix -> AS
Ip2AsChoices ==
    { [p \in {"g12", "p3"} |-> IF p = "g12" THEN "A" ELSE "I"],
      [p \in {"g12", "p2", "p3"} |-> IF p = "g12" THEN "A" ELSE "B"],
      [p \in P24 |-> IF p = "p3" THEN "C" ELSE "A"] }

\* read_ip2as: the raw prefixes of each AS
as_prefixes ==
    [a \in {ip2as[p] : p \in DOMAIN ip2as} |-> {p \in DOMAIN ip2as : ip2as[p] = a}]

\* read_ip2as: the /24 of each AS, the /24 of a less specific prefix included
read_ip2as_24prefixes ==
    [a \in DOMAIN as_prefixes |-> UNION {get_subnets(p) : p \in as_prefixes[a]}]

\* read_ip2as: the AS of a /24 is the AS of the most specific prefix that holds it
read_ip2as_prefix24 ==
    [q \in UNION {get_subnets(p) : p \in DOMAIN ip2as} |->
        LET holders == {p \in DOMAIN ip2as : q \in get_subnets(p)}
            longest == CHOOSE p \in holders :
                           \A o \in holders : extract_mask_length(o) <= extract_mask_length(p)
        IN  ip2as[longest]]

as_to_prefixes == IF break_prefix THEN as_24prefixes ELSE as_prefixes

\* The customer cone file: AS -> the ASes of its cone
PpdcFile == [a \in {"A", "B"} |-> IF a = "A" THEN {"A", "C"} ELSE {"B"}]

\* read_customer_cone: the number of /24 in the cone, for the cones that have some
read_customer_cone ==
    LET cone(a) == UNION {LookupSet(as_24prefixes, c) : c \in ppdc[a]}
    IN  [a \in {x \in DOMAIN ppdc : cone(x) # {}} |-> Cardinality(cone(a))]

\* The maps read_ip2as and read_customer_cone leave
files_read ==
    /\ as_24prefixes = read_ip2as_24prefixes
    /\ prefix24_as = read_ip2as_prefix24
    /\ as_cc_size = read_customer_cone

\* as_conesize[as], zero for an AS the cone file does not give
cone_weight(as) == IF as \in DOMAIN as_cc_size THEN as_cc_size[as] ELSE 0

(***************************************************************************)
(* Targets, vantage points and overlays                                    *)
(***************************************************************************)
\* SafeSet.get: <<value, ok>>; a faked set answers its fake value to every key
SafeSetGet(set, key) ==
    IF set.fake # "" THEN <<set.fake, TRUE>>
    ELSE IF key \in DOMAIN set.set THEN <<set.set[key], TRUE>>
    ELSE <<"", FALSE>>

\* The source addresses of the vantage points
vps == IF target_to_vp.fake # "" THEN {"my_VP"} ELSE {"v1", "v2"}

\* target_to_vp: faked without a warts data set, else one entry per traced target
TargetToVpChoices ==
    { [fake |-> "my_VP", set |-> <<>>],
      [fake |-> "", set |-> [p \in {"p1", "p2"} |-> "v1"]],
      [fake |-> "", set |-> [p \in P24 |-> IF p = "p2" THEN "v2" ELSE "v1"]],
      [fake |-> "", set |-> [p \in P24 |-> IF p = "p3" THEN "v1" ELSE "v3"]] }

\* The targets found in the warts files
destinations == DOMAIN target_to_vp.set

\* The overlay files of the collectors: a line is an aggregate, then its overlays
OverlayChoices ==
    { {},
      { <<"g12", "p1", "p2">> },
      { <<"g12", "p1", "p2">>, <<"g23", "p2", "p3">> },
      { <<"g23", "p2", "p3">>, <<"g3">> } }

\* The edges build_merge_overlays adds for a line
line_edges(l) == {{l[1], l[i]} : i \in 2..Len(l)}

\* The connected component of a set of nodes
RECURSIVE Connected_component(_, _)
Connected_component(C, edges) ==
    LET N == C \cup UNION {e \in edges : e \cap C # {}}
    IN  IF N = C THEN C ELSE Connected_component(N, edges)

\* The lines of all_overlays.txt: one connected component per line
build_merge_overlays(files) ==
    LET edges == UNION {line_edges(l) : l \in files}
    IN  {Connected_component({x}, edges) : x \in UNION edges}

\* prefix -> the prefixes of the last line that holds it; a line is the set of
\* its fields
read_overlay_file(lines) ==
    [x \in UNION Range(lines) |->
        lines[CHOOSE i \in DOMAIN lines :
                  x \in lines[i] /\ \A j \in DOMAIN lines : x \in lines[j] => j <= i]]

\* One global overlay map, shared by all the vantage points. The components
\* are disjoint, so the order of the lines of all_overlays.txt does not matter.
global_overlays ==
    read_overlay_file(CHOOSE o \in Orders(build_merge_overlays(overlay_files)) : TRUE)

vp_overlays == [vp \in vps |-> global_overlays]

(***************************************************************************)
(* Directed probes and their groups                                        *)
(***************************************************************************)
\* The lists get_directed_probes can return: one /24 per line of the file
get_directed_probes == Picks(directed_prefixes)

\* The directed prefix files: the lines, in the order of the file
DirectedChoices ==
    {SelectSeq(<<"p2", "p3", "g12">>, LAMBDA p : p \in D) : D \in SUBSET {"p2", "p3", "g12"}}

\* The AS of a directed probe, "-1" without one
probe_as(probe) == IF probe \in DOMAIN prefix24_as THEN prefix24_as[probe] ELSE "-1"

group_probes(directed_probes) ==
    LET ps == {directed_probes[i] : i \in 1..Len(directed_probes)}
    IN  [a \in {probe_as(p) : p \in ps} |-> {p \in ps : probe_as(p) = a}]

get_one_hop_neighbors ==
    LET neighbors == DOMAIN Lookup(as_neighbors, as_interest)
    IN  (UNION {DOMAIN Lookup(as_neighbors, n) : n \in neighbors} \ {as_interest}) \ neighbors

get_directed_probes_and_groups(directed_probes) ==
    LET probes == group_probes(directed_probes)
        AS_probes_map == (DOMAIN probes) \ {as_interest}
        neighbors_map == (DOMAIN Lookup(as_neighbors, as_interest)) \cap AS_probes_map
        one_hop == get_one_hop_neighbors \cap AS_probes_map
    IN  [AS_probes |-> probes,
         neighbors_map |-> neighbors_map,
         one_hop_neighbors_map |-> one_hop,
         other_AS_map |-> AS_probes_map \ (neighbors_map \cup one_hop)]

\* sort.Sort is not stable and the map is walked in any order: every order
\* of the ASes that is sorted on the cone size can come out
order_by_customer_cone(ases, reverse) ==
    {o \in Orders(ases) :
        \A i, j \in 1..Len(o) :
            i < j => IF reverse THEN cone_weight(o[i]) >= cone_weight(o[j])
                                ELSE cone_weight(o[i]) <= cone_weight(o[j])}

\* Mutation of group_by_relationships: the providers come first
group_by_relationships_providers_first(probes, reverse) ==
    LET AS_probes_map == (DOMAIN probes) \ {as_interest}
        c_p_p(rel) == {n \in DOMAIN Lookup(as_neighbors, as_interest) :
                          as_neighbors[as_interest][n] = rel} \cap AS_probes_map
    IN  {v \o p \o c : c \in order_by_customer_cone(c_p_p(Customer), reverse),
                       p \in order_by_customer_cone(c_p_p(Peer), reverse),
                       v \in order_by_customer_cone(c_p_p(Provider), reverse)}

\* customers, then peers, then providers, each group sorted on the cone size
group_by_relationships(probes, reverse) ==
    LET AS_probes_map == (DOMAIN probes) \ {as_interest}
        c_p_p(rel) == {n \in DOMAIN Lookup(as_neighbors, as_interest) :
                          as_neighbors[as_interest][n] = rel} \cap AS_probes_map
    IN  {c \o p \o v : c \in order_by_customer_cone(c_p_p(Customer), reverse),
                       p \in order_by_customer_cone(c_p_p(Peer), reverse),
                       v \in order_by_customer_cone(c_p_p(Provider), reverse)}

_get_neighbors_ordered_customer_cone(reverse) ==
    order_by_customer_cone(DOMAIN Lookup(as_neighbors, as_interest), reverse)

(***************************************************************************)
(* add_AS_probes and remove_overlays                                       *)
(***************************************************************************)
\* What a strategy builds: the slice s and the limits
NoProbes == [s |-> <<>>, limits |-> <<>>]

AS_limit(asn, limit) == [asn |-> asn, limit |-> limit]

\* The slices a range loop over a set of probes can append, get_probe applied
ProbeSeqs(probes) == UNION {Picks(o) : o \in Orders(probes)}

\* Mutation of add_one_AS: the limit is recorded before the probes are appended
add_one_AS_limit_first(acc, AS, seq) ==
    [s |-> acc.s \o seq, limits |-> Append(acc.limits, AS_limit(AS, Len(acc.s)))]

\* The body of the loop of add_AS_probes for an AS that has probes: the probes,
\* then the limit
add_one_AS(acc, AS, seq) ==
    [s |-> acc.s \o seq, limits |-> Append(acc.limits, AS_limit(AS, Len(acc.s \o seq)))]

\* Mutation of add_AS_probes: an AS whose set of probes is empty is passed over
\* like an AS that is no key of the map
RECURSIVE add_AS_probes_skip_empty(_, _, _)
add_AS_probes_skip_empty(acc, ases, probes_of) ==
    IF ases = <<>> THEN {acc}
    ELSE IF Head(ases) \notin DOMAIN probes_of \/ Lookup(probes_of, Head(ases)) = {}
         THEN add_AS_probes_skip_empty(acc, Tail(ases), probes_of)
         ELSE UNION {add_AS_probes_skip_empty(add_one_AS(acc, Head(ases), seq), Tail(ases), probes_of)
                        : seq \in ProbeSeqs(probes_of[Head(ases)])}

\* The (s, limits) add_AS_probes can return; get_probe is always _get_24_prefix
RECURSIVE add_AS_probes(_, _, _)
add_AS_probes(acc, ases, probes_of) ==
    IF ases = <<>> THEN {acc}
    ELSE IF Head(ases) \notin DOMAIN probes_of
         THEN add_AS_probes(acc, Tail(ases), probes_of)
         ELSE UNION {add_AS_probes(add_one_AS(acc, Head(ases), seq), Tail(ases), probes_of)
                        : seq \in ProbeSeqs(probes_of[Head(ases)])}

\* add_AS_probes on every (s, limits) built so far, for every order of the ASes
add_group(accs, orders, probes_of) ==
    UNION {add_AS_probes(acc, o, probes_of) : acc \in accs, o \in orders}

\* Mutation of append_overlays: the overlay group is not recorded
append_overlays_lost(seen, vp, overlays_group) == seen

append_overlays(seen, vp, overlays_group) ==
    MapPut(seen, vp, LookupSet(seen, vp) \cup overlays_group)

\* One probe of the loop of remove_overlays, its /24 picked: the new (seen, s)
remove_overlays_probe(st, probe, probe_24, overlays) ==
    LET got == SafeSetGet(target_to_vp, probe_24)
        VP == got[1]
    IN  IF ~got[2] THEN [st EXCEPT !.s = @ \cup {probe_24}]
        ELSE IF probe \in LookupSet(st.seen, VP) THEN st
        ELSE [seen |-> append_overlays(st.seen, VP, LookupSet(Lookup(overlays, VP), probe)),
              s |-> st.s \cup {probe_24}]

\* The sets s the loop can leave, the probes walked in the given order
RECURSIVE remove_overlays_loop(_, _, _)
remove_overlays_loop(st, order, overlays) ==
    IF order = <<>> THEN {st.s}
    ELSE UNION {remove_overlays_loop(remove_overlays_probe(st, Head(order), p24, overlays),
                                     Tail(order), overlays)
                   : p24 \in _get_24_prefix(Head(order))}

\* The sets remove_overlays can leave for one AS
remove_overlays_AS(probes, overlays) ==
    UNION {remove_overlays_loop([seen |-> <<>>, s |-> {}], o, overlays) : o \in Orders(probes)}

\* The AS_probes maps remove_overlays can leave
RECURSIVE remove_overlays(_, _, _)
remove_overlays(probes_of, ases, overlays) ==
    IF ases = <<>> THEN {probes_of}
    ELSE UNION {remove_overlays(MapPut(probes_of, Head(ases), kept), Tail(ases), overlays)
                   : kept \in remove_overlays_AS(LookupSet(probes_of, Head(ases)), overlays)}

(***************************************************************************)
(* The strategies: each gives the set of (s, limits) it can return         *)
(***************************************************************************)
\* The slices _internals can return
_internals == Orders(LookupSet(as_24prefixes, as_interest))

\* The slices that list the /24 of the given ASes, AS after AS
RECURSIVE prefixes_of(_)
prefixes_of(ases) ==
    IF ases = <<>> THEN {<<>>}
    ELSE {h \o t : h \in Orders(LookupSet(as_24prefixes, Head(ases))),
                   t \in prefixes_of(Tail(ases))}

\* The slices _direct_neighbors can return
_direct_neighbors ==
    UNION {prefixes_of(o) : o \in Orders(DOMAIN Lookup(as_neighbors, as_interest))}

\* A slice of internal prefixes and its limit
internal_group(seqs) ==
    {[s |-> i, limits |-> <<AS_limit(as_interest, Len(i))>>] : i \in seqs}

\* 0: log.Fatal without targets, else the targets shuffled
random ==
    IF destinations = {} THEN {}
    ELSE {[s |-> o, limits |-> <<AS_limit("0", Len(o))>>] : o \in Orders(destinations)}

\* 1: log.Fatal without targets, else the targets sorted
increasing_order ==
    IF destinations = {} THEN {}
    ELSE LET sorted == SelectSeq(<<"p1", "p2", "p3">>, LAMBDA p : p \in destinations)
         IN  {[s |-> sorted, limits |-> <<AS_limit("0", Len(sorted))>>]}

\* 2
direct_neighbors ==
    add_group({NoProbes}, Orders(DOMAIN Lookup(as_neighbors, as_interest)), as_24prefixes)

\* 3
direct_neighbors_and_internal ==
    {[s |-> n \o i, limits |-> <<AS_limit("0", Len(n)), AS_limit("1", Len(n \o i))>>]
        : n \in _direct_neighbors, i \in _internals}

\* 4
internal_and_direct_neighbors ==
    {[s |-> i \o n, limits |-> <<AS_limit("0", Len(i)), AS_limit("1", Len(i \o n))>>]
        : n \in _direct_neighbors, i \in _internals}

\* 5 (reverse) and 6
_customer_cone_neighbors(reverse) ==
    add_group({NoProbes}, _get_neighbors_ordered_customer_cone(reverse), as_to_prefixes)

\* 7 and 12
directed_probing ==
    {[s |-> dp, limits |-> <<AS_limit("0", Len(dp))>>] : dp \in get_directed_probes}

\* The groups of the directed strategies, added one after the other: the
\* internal slices, then add_AS_probes for each group of ASes
RECURSIVE add_groups(_, _, _)
add_groups(accs, groups, probes_of) ==
    IF groups = <<>> THEN accs
    ELSE add_groups(add_group(accs, Head(groups), probes_of), Tail(groups), probes_of)

\* 8 and 9 (ordered): the neighbors slice stays nil when the groups are not
\* ordered; the map of the directed probes is kept with the result
_directed_probing_internal_neighbors_others(ordered) ==
    UNION {LET g == get_directed_probes_and_groups(dp)
               mixed == g.one_hop_neighbors_map \cup g.other_AS_map
           IN  {[s |-> r.s, limits |-> r.limits, probes |-> g.AS_probes,
                 grouped |-> g.AS_probes]
                   : r \in add_groups(
                               internal_group(Orders(LookupSet(g.AS_probes, as_interest))),
                               IF ordered
                               THEN <<order_by_customer_cone(g.neighbors_map, FALSE),
                                      order_by_customer_cone(mixed, FALSE)>>
                               ELSE <<{<<>>}, Orders(mixed)>>,
                               g.AS_probes)}
              : dp \in get_directed_probes}

\* 10
directed_probing_internal_neighbors_others_mixed ==
    UNION {LET g == get_directed_probes_and_groups(dp)
               mixed == g.neighbors_map \cup g.one_hop_neighbors_map \cup g.other_AS_map
           IN  add_groups(internal_group(Orders(LookupSet(g.AS_probes, as_interest))),
                          <<order_by_customer_cone(mixed, FALSE)>>, g.AS_probes)
              : dp \in get_directed_probes}

\* The three groups of ASes, each sorted on the cone size
three_groups(g) ==
    <<order_by_customer_cone(g.neighbors_map, FALSE),
      order_by_customer_cone(g.one_hop_neighbors_map, FALSE),
      order_by_customer_cone(g.other_AS_map, FALSE)>>

\* 11
directed_probing_internal_neighbors_onehopneighbors_others ==
    UNION {LET g == get_directed_probes_and_groups(dp)
           IN  add_groups(internal_group(Orders(LookupSet(g.AS_probes, as_interest))),
                          three_groups(g), g.AS_probes)
              : dp \in get_directed_probes}

\* 13 and 16
directed_probing_internal_neighbors_onehopneighbors_others_no24 ==
    UNION {LET g == get_directed_probes_and_groups(dp)
           IN  add_groups(internal_group(_internals), three_groups(g), g.AS_probes)
              : dp \in get_directed_probes}

\* 14
directed_probing_internal_neighbors_others_no24 ==
    UNION {LET g == get_directed_probes_and_groups(dp)
           IN  add_groups(internal_group(_internals),
                          <<order_by_customer_cone(g.neighbors_map, FALSE),
                            order_by_customer_cone(
                                g.one_hop_neighbors_map \cup g.other_AS_map, FALSE)>>,
                          g.AS_probes)
              : dp \in get_directed_probes}

\* 15: the map holds the neighbors that have prefixes
customer_cone_neighbors_increasing_no24 ==
    LET neighbors == DOMAIN Lookup(as_neighbors, as_interest)
        probes_of == [a \in {n \in neighbors : LookupSet(as_to_prefixes, n) # {}} |->
                         as_to_prefixes[a]]
    IN  add_groups(internal_group(_internals),
                   <<_get_neighbors_ordered_customer_cone(FALSE)>>, probes_of)

\* remove_overlays, then add_AS_probes, for a group of ASes: the (s, limits,
\* AS_probes) they can leave
reduce_group(sts, orders, overlays) ==
    UNION {UNION {{[s |-> r.s, limits |-> r.limits, probes |-> pr, grouped |-> st.grouped]
                      : r \in add_AS_probes([s |-> st.s, limits |-> st.limits], o, pr)}
                     : pr \in remove_overlays(st.probes, o, overlays)}
              : st \in sts, o \in orders}

\* 17, 20 (relationships) and 21 (relationships, reverse)
_overlays_reduction(overlays, relationships, reverse) ==
    UNION {LET g == get_directed_probes_and_groups(dp)
               start == {[s |-> r.s, limits |-> r.limits, probes |-> g.AS_probes,
                          grouped |-> g.AS_probes]
                            : r \in internal_group(_internals)}
               neighbors == IF relationships
                            THEN group_by_relationships(g.AS_probes, reverse)
                            ELSE order_by_customer_cone(g.neighbors_map, reverse)
               group_2 == reduce_group(start, neighbors, overlays)
               group_3 == reduce_group(group_2,
                              order_by_customer_cone(g.one_hop_neighbors_map, reverse),
                              overlays)
           IN  reduce_group(group_3, order_by_customer_cone(g.other_AS_map, reverse),
                            overlays)
              : dp \in get_directed_probes}

\* The next-AS file of the AS of interest: prefix -> next-hop AS
prefix_to_nextAS == [p \in P24 |-> IF p = "p3" THEN "I" ELSE "A"]

\* The prefixes that share a next-hop AS are the overlays of one another
vp_prefix_to_prefixes ==
    LET prefix_to_prefixes ==
            [p \in {x \in DOMAIN prefix_to_nextAS : prefix_to_nextAS[x] # as_interest} |->
                {x \in DOMAIN prefix_to_nextAS : prefix_to_nextAS[x] = prefix_to_nextAS[p]}]
    IN  [vp \in vps |-> prefix_to_prefixes]

\* 18
next_hop_as_reduction_global ==
    UNION {UNION {{[s |-> o, limits |-> <<AS_limit("0", Len(o))>>, probes |-> pr,
                        grouped |-> [a \in {"."} |-> Range(dp)]]
                         : o \in Orders(pr["."])}
                        : pr \in remove_overlays([a \in {"."} |-> Range(dp)], <<".">>,
                                                 vp_prefix_to_prefixes)}
                 : dp \in get_directed_probes}

\* The successful traces of a run on strategy 0: prefix -> discovery
oracle_prefixes == [p \in P24 |-> IF p = "p2" THEN 1 ELSE 2]

\* 19: the prefixes sorted on decreasing discovery
oracle ==
    {[s |-> o, limits |-> <<AS_limit("0", Len(o))>>]
        : o \in {q \in Orders(DOMAIN oracle_prefixes) :
                    \A i, j \in 1..Len(q) : i < j => oracle_prefixes[q[i]] >= oracle_prefixes[q[j]]}}

\* A result without a map of probes
plain(rs) == {[s |-> r.s, limits |-> r.limits, probes |-> <<>>, grouped |-> <<>>] : r \in rs}

\* strategy_fc[n]: the (s, limits, AS_probes) strategy n can return
strategy_fc(n) ==
    CASE n = 0 -> plain(random)
      [] n = 1 -> plain(increasing_order)
      [] n = 2 -> plain(direct_neighbors)
      [] n = 3 -> plain(direct_neighbors_and_internal)
      [] n = 4 -> plain(internal_and_direct_neighbors)
      [] n = 5 -> plain(_customer_cone_neighbors(TRUE))
      [] n = 6 -> plain(_customer_cone_neighbors(FALSE))
      [] n = 7 -> plain(directed_probing)
      [] n = 8 -> _directed_probing_internal_neighbors_others(FALSE)
      [] n = 9 -> _directed_probing_internal_neighbors_others(TRUE)
      [] n = 10 -> plain(directed_probing_internal_neighbors_others_mixed)
      [] n = 11 -> plain(directed_probing_internal_neighbors_onehopneighbors_others)
      [] n = 12 -> plain(directed_probing)
      [] n = 13 -> plain(directed_probing_internal_neighbors_onehopneighbors_others_no24)
      [] n = 14 -> plain(directed_probing_internal_neighbors_others_no24)
      [] n = 15 -> plain(customer_cone_neighbors_increasing_no24)
      [] n = 16 -> plain(directed_probing_internal_neighbors_onehopneighbors_others_no24)
      [] n = 17 -> _overlays_reduction(vp_overlays, FALSE, FALSE)
      [] n = 18 -> next_hop_as_reduction_global
      [] n = 19 -> plain(oracle)
      [] n = 20 -> _overlays_reduction(vp_overlays, TRUE, FALSE)
      [] n = 21 -> _overlays_reduction(vp_overlays, TRUE, TRUE)

\* The lines write_strategy writes to as_limits.txt: a limit equal to the one
\* before it is not written
RECURSIVE written_limits(_, _)
written_limits(limits, previous) ==
    IF limits = <<>> THEN <<>>
    ELSE (IF Head(limits).limit # previous THEN <<Head(limits)>> ELSE <<>>)
         \o written_limits(Tail(limits), Head(limits).limit)

(***************************************************************************)
(* The strategy step                                                       *)
(***************************************************************************)
stratInputs == <<as_neighbors, ip2as, ppdc, as_24prefixes, prefix24_as, as_cc_size,
                 break_prefix, directed_prefixes, target_to_vp,
                 overlay_files, call_ases>>

\* launch_anaximander_strategy has read its files
InitStrategy ==
    /\ SchedStart("sequential", <<>>, <<>>, <<0, 1>>, <<0, <<1, 2>> >>)
    /\ RibIdle /\ OriginIdle /\ DependentIdle
    /\ \E lines \in AsRelChoices : as_neighbors = read_as_rel(lines)
    /\ ip2as \in Ip2AsChoices
    /\ ppdc = PpdcFile
    /\ files_read
    /\ break_prefix \in BOOLEAN
    /\ directed_prefixes \in DirectedChoices
    /\ target_to_vp \in TargetToVpChoices
    /\ overlay_files \in OverlayChoices
    /\ call_ases = <<>>
    /\ st_pc = "ready"
    /\ strategy = -1
    /\ ordered_targets = <<>>
    /\ as_limits = <<>>
    /\ as_limits_file = <<>>
    /\ AS_probes = <<>>
    /\ grouped_probes = <<>>

\* write_strategy: the strategy runs, its targets and its limits are written
write_strategy ==
    /\ st_pc = "ready"
    /\ \E n \in 0..21 : \E r \in strategy_fc(n) :
        /\ strategy' = n
        /\ ordered_targets' = r.s
        /\ as_limits' = r.limits
        /\ as_limits_file' = written_limits(r.limits, 0)
        /\ AS_probes' = r.probes
        /\ grouped_probes' = r.grouped
    /\ st_pc' = "returned"
    /\ UNCHANGED <<schedVars, stratInputs, ribVars, originVars, dependentVars>>

NextStrategy == write_strategy

SpecStrategy == InitStrategy /\ [][NextStrategy]_vars

\* The files of an AS of interest with two customers C1 and C2, a peer P1, a
\* provider V1, the one-hop neighbor H and the AS O that is no neighbor
NeighborsAsRel ==
    { <<"I", "C1", "-1">>, <<"I", "C2", "-1">>, <<"I", "P1", "0">>, <<"V1", "I", "-1">>,
      <<"C1", "H", "-1">> }

NeighborsIp2As ==
    [pI |-> "I", pC1 |-> "C1", pC2 |-> "C2", pP1 |-> "P1", pV1 |-> "V1", pH |-> "H",
     pO |-> "O", pK2 |-> "K2", b22a |-> "K1", b22b |-> "K3", b18 |-> "K4", b19 |-> "K5"]

\* The cones: 5 /24 for C1, 2 for C2, 10 for P1, 100 for V1
NeighborsPpdc ==
    [C1 |-> {"C1", "K1"}, C2 |-> {"C2", "K2"}, P1 |-> {"P1", "C1", "K1", "K3"},
     V1 |-> {"V1", "K4", "K5", "C2", "K2", "H"}]

\* The directed prefix files: the lines, in the order of the file
NeighborsDirected ==
    { <<"pV1", "pP1", "pC1", "pO", "pH", "pC2">>,
      <<"pV1", "pP1", "pC1", "pC2">>,
      <<"pV1", "pH", "pC2", "pI">>,
      <<"pO", "pP1">>,
      <<>> }

InitNeighbors ==
    /\ SchedStart("sequential", <<>>, <<>>, <<0, 1>>, <<0, <<1, 2>> >>)
    /\ RibIdle /\ OriginIdle /\ DependentIdle
    /\ as_neighbors = read_as_rel(NeighborsAsRel)
    /\ ip2as = NeighborsIp2As
    /\ ppdc = NeighborsPpdc
    /\ files_read
    /\ break_prefix \in BOOLEAN
    /\ directed_prefixes \in NeighborsDirected
    /\ target_to_vp \in {[fake |-> "my_VP", set |-> <<>>],
                          [fake |-> "", set |-> [p \in {"pC1", "pH"} |-> "v1"]]}
    /\ overlay_files = {<<"pC1", "pH">>}
    /\ call_ases = <<>>
    /\ st_pc = "ready"
    /\ strategy = -1
    /\ ordered_targets = <<>>
    /\ as_limits = <<>>
    /\ as_limits_file = <<>>
    /\ AS_probes = <<>>
    /\ grouped_probes = <<>>

SpecNeighbors == InitNeighbors /\ [][NextStrategy]_vars


(***************************************************************************)
(* Properties of the strategy step                                         *)
(***************************************************************************)
\* The limit before the i-th one, 0 before the first
previous_limit(i) == IF i = 1 THEN 0 ELSE as_limits[i - 1].limit

\* The limits are in non-decreasing order and none exceeds the number of targets
limits_ordered ==
    /\ \A i \in 1..Len(as_limits) : previous_limit(i) <= as_limits[i].limit
    /\ \A i \in 1..Len(as_limits) : as_limits[i].limit <= Len(ordered_targets)

\* Every target lies in the segment of one limit
segments_cover ==
    \A t \in 1..Len(ordered_targets) :
        \E i \in 1..Len(as_limits) : previous_limit(i) < t /\ t <= as_limits[i].limit

\* C4 (amended): whatever the strategy and its input, the returned limits are
\* non-decreasing and none exceeds the number of targets; when there is a
\* limit, the last one is the number of targets and the segments between the
\* limits make up the targets; without any limit there is no target.
C4_LimitsDelimitTargets ==
    st_pc = "returned" =>
        /\ limits_ordered
        /\ as_limits # <<>> =>
              /\ as_limits[Len(as_limits)].limit = Len(ordered_targets)
              /\ segments_cover
        /\ as_limits = <<>> => ordered_targets = <<>>

\* C4 witness: a strategy returned two ASes that have targets
C4_Witness ==
    /\ st_pc = "returned"
    /\ Len(as_limits) >= 2
    /\ 0 < as_limits[1].limit
    /\ as_limits[1].limit < as_limits[2].limit
    /\ as_limits[Len(as_limits)].limit = Len(ordered_targets)

\* C4 (as stated): every strategy returns a last limit, and it is the number
\* of targets.
C4_LastLimitIsLength ==
    st_pc = "returned" =>
        /\ limits_ordered
        /\ as_limits # <<>>
        /\ as_limits[Len(as_limits)].limit = Len(ordered_targets)

\* The overlays the strategy that ran gave to remove_overlays
overlays_given == IF strategy = 18 THEN vp_prefix_to_prefixes ELSE vp_overlays

\* The ASes the strategy that ran gave to remove_overlays
ases_reduced == IF strategy = 18 THEN {"."} ELSE (DOMAIN grouped_probes) \ {as_interest}

\* The probes of a set whose /24 maps to the vantage point
probes_of_vp(probes, v) == {p \in probes : SafeSetGet(target_to_vp, p) = <<v, TRUE>>}

\* C5: after remove_overlays has processed an AS, for every vantage point v
\* the probes retained for the AS hold, among those whose /24 maps to v, at
\* most one member of any overlay group overlays[v][.]; a probe whose /24 has
\* no vantage point is retained.
C5_OneProbePerOverlayGroup ==
    (st_pc = "returned" /\ strategy \in {17, 18, 20, 21}) =>
        \A a \in ases_reduced :
            /\ \A v \in DOMAIN overlays_given : \A x \in DOMAIN overlays_given[v] :
                  Cardinality(probes_of_vp(AS_probes[a], v) \cap overlays_given[v][x]) <= 1
            /\ \A p \in grouped_probes[a] :
                  ~SafeSetGet(target_to_vp, p)[2] => p \in AS_probes[a]

\* C5 witness: two probes of one AS, one vantage point and one overlay group
\* went in and one came out, and a probe without a vantage point was retained
C5_Witness ==
    /\ st_pc = "returned" /\ strategy \in {17, 20, 21}
    /\ \E a \in ases_reduced : \E v \in DOMAIN overlays_given : \E x \in DOMAIN overlays_given[v] :
          /\ Cardinality(probes_of_vp(grouped_probes[a], v) \cap overlays_given[v][x]) >= 2
          /\ Cardinality(probes_of_vp(AS_probes[a], v) \cap overlays_given[v][x]) = 1
    /\ \E b \in ases_reduced : \E p \in grouped_probes[b] :
          ~SafeSetGet(target_to_vp, p)[2] /\ p \in AS_probes[b]


(***************************************************************************)
(* The RIB selector: paths, entries and the tree of paths                  *)
(***************************************************************************)
reverse(s) == [i \in 1..Len(s) |-> s[Len(s) + 1 - i]]

\* AS pre-pending removed: an element equal to the one before it is dropped
RECURSIVE remove_duplicates_from(_, _)
remove_duplicates_from(slice, previous) ==
    IF slice = <<>> THEN <<>>
    ELSE (IF Head(slice) # previous THEN <<Head(slice)>> ELSE <<>>)
         \o remove_duplicates_from(Tail(slice), Head(slice))

remove_duplicates(slice) == remove_duplicates_from(slice, "")

routing_loop(slice) ==
    \E i, j \in 1..Len(slice) : i < j /\ slice[i] = slice[j]

\* Index from 0 of the first cell that holds the element, -1 without one
find_index(slice, element) ==
    IF \E i \in 1..Len(slice) : slice[i] = element
    THEN (CHOOSE i \in 1..Len(slice) :
              slice[i] = element /\ \A j \in 1..(i - 1) : slice[j] # element) - 1
    ELSE -1

\* The cell of a slice at an index from 0
At(slice, index) == slice[index + 1]

get_prev_or_next_as(AS_interest, as_path, direction) ==
    LET i == find_index(as_path, AS_interest)
    IN  IF i = -1 THEN ""
        ELSE IF i + direction < 0 \/ i + direction >= Len(as_path) THEN AS_interest
        ELSE At(as_path, i + direction)

\* A Rib_entry: the AS path, and the next hop of each AS of interest on it
get_Rib_entry(as_path, ases, direction) ==
    [as_path |-> as_path,
     as_to_next_hop_AS |->
        [a \in {x \in Range(ases) : get_prev_or_next_as(x, as_path, direction) # ""} |->
            get_prev_or_next_as(a, as_path, direction)]]

\* A Rib_entry is known by its key in the bucket; no entry is nil
NoEntry == <<>>

NewNodes == [tree |-> {}, node_to_entries |-> <<>>, pivot_nodes |-> {}]

append_rib(set, as, entry) == MapPut(set, as, LookupSet(set, as) \cup {entry})

\* Mutation of generate_if_absent: no node is ever a pivot
generate_if_absent_no_pivot(nodes, element, arg) ==
    [nodes EXCEPT !.node_to_entries = append_rib(@, element, arg)]

\* Called on a node the tree did not hold at this place: the node is a pivot
\* when another path went through it already
generate_if_absent(nodes, element, arg) ==
    [nodes EXCEPT !.pivot_nodes = IF element \in DOMAIN nodes.node_to_entries
                                  THEN @ \cup {element} ELSE @,
                  !.node_to_entries = append_rib(@, element, arg)]

\* Called on a node the tree holds at this place
generate_if_present(nodes, element, arg) ==
    [nodes EXCEPT !.node_to_entries = append_rib(@, element, arg)]

\* Tree.Add: the path is walked from the root; a node of the tree is the path
\* from the root to it
RECURSIVE Tree_Add(_, _, _, _)
Tree_Add(nodes, path, i, arg) ==
    IF i > Len(path) THEN nodes
    ELSE LET node == SubSeq(path, 1, i)
         IN  Tree_Add(IF node \in nodes.tree
                      THEN generate_if_present(nodes, path[i], arg)
                      ELSE generate_if_absent([nodes EXCEPT !.tree = @ \cup {node}],
                                              path[i], arg),
                      path, i + 1, arg)

\* The loop of build_tree over the keys of the bucket, in the given order
RECURSIVE build_tree_loop(_, _, _)
build_tree_loop(set, nodes, order) ==
    IF order = <<>> THEN [set |-> set, nodes |-> nodes]
    ELSE LET key == Head(order)
             as_path == remove_duplicates(set[key].as_path)
         IN  IF routing_loop(as_path)
             THEN build_tree_loop([x \in (DOMAIN set) \ {key} |-> set[x]], nodes, Tail(order))
             ELSE build_tree_loop([set EXCEPT ![key].as_path = reverse(as_path)],
                                  Tree_Add(nodes, reverse(as_path), 1, key), Tail(order))

\* The (bucket, nodes) build_tree can leave
build_tree(set) == {build_tree_loop(set, NewNodes, o) : o \in Orders(DOMAIN set)}


(***************************************************************************)
(* The RIB selector: heuristics and selection                              *)
(***************************************************************************)
\* What a heuristic gives back: whether it applied, and the selection it left
Applied(applied, sel) == [applied |-> applied, sel |-> sel]

Selection(next_hop, entry) == [next_hop |-> next_hop, entry |-> entry]

generate_valley_free_heuristic(pivot_node, next_hop, routing_entry, sel) ==
    IF get_relationship(pivot_node, next_hop) = get_relationship(pivot_node, sel.next_hop)
    THEN Applied(FALSE, sel)
    ELSE IF get_relationship(pivot_node, next_hop) < get_relationship(pivot_node, sel.next_hop)
         THEN Applied(TRUE, Selection(next_hop, routing_entry))
         ELSE Applied(TRUE, sel)

generate_heuristic_check(pivot_node, next_hop, routing_entry, sel) ==
    Applied(get_relationship(pivot_node, next_hop)
                # get_relationship(pivot_node, sel.next_hop), sel)

\* Mutation of generate_next_hop_popularity_heuristic: the entry of a next
\* hop other than the most popular one is preferred
generate_next_hop_least_popular(max_next_hop, nb, next_hop, routing_entry, sel) ==
    IF nb = 1 /\ next_hop # sel.next_hop
    THEN Applied(TRUE, IF next_hop # max_next_hop
                       THEN Selection(next_hop, routing_entry) ELSE sel)
    ELSE Applied(FALSE, sel)

generate_next_hop_popularity_heuristic(max_next_hop, nb, next_hop, routing_entry, sel) ==
    IF nb = 1 /\ next_hop # sel.next_hop
    THEN Applied(TRUE, IF next_hop = max_next_hop
                       THEN Selection(next_hop, routing_entry) ELSE sel)
    ELSE Applied(FALSE, sel)

generate_shortest_path_heuristic(set, next_hop, routing_entry, sel) ==
    IF Len(set[routing_entry].as_path) = Len(set[sel.entry].as_path)
    THEN Applied(FALSE, sel)
    ELSE IF Len(set[routing_entry].as_path) < Len(set[sel.entry].as_path)
         THEN Applied(TRUE, Selection(next_hop, routing_entry))
         ELSE Applied(TRUE, sel)

generate_most_ases_interest_heuristic(set, next_hop, routing_entry, sel) ==
    IF Len(set[routing_entry].as_path) = Len(set[sel.entry].as_path)
    THEN Applied(TRUE,
                 IF Cardinality(DOMAIN set[routing_entry].as_to_next_hop_AS)
                        > Cardinality(DOMAIN set[sel.entry].as_to_next_hop_AS)
                 THEN Selection(next_hop, routing_entry) ELSE sel)
    ELSE Applied(FALSE, sel)

\* The heuristics select_entry applies, in their order: the first three are
\* for a pivot node only
heuristics(pivot_node) == IF pivot_node # "" THEN <<1, 2, 3, 4, 5>> ELSE <<4, 5>>

heuristic_fn(h, pivot_node, set, max_next_hop, nb, next_hop, routing_entry, sel) ==
    CASE h = 1 -> generate_valley_free_heuristic(pivot_node, next_hop, routing_entry, sel)
      [] h = 2 -> generate_heuristic_check(pivot_node, next_hop, routing_entry, sel)
      [] h = 3 -> generate_next_hop_popularity_heuristic(max_next_hop, nb, next_hop,
                                                         routing_entry, sel)
      [] h = 4 -> generate_shortest_path_heuristic(set, next_hop, routing_entry, sel)
      [] h = 5 -> generate_most_ases_interest_heuristic(set, next_hop, routing_entry, sel)

\* The heuristics are applied until one of them applies
RECURSIVE apply_heuristics(_, _, _, _, _, _, _, _)
apply_heuristics(hs, pivot_node, set, max_next_hop, nb, next_hop, routing_entry, sel) ==
    IF hs = <<>> THEN sel
    ELSE LET r == heuristic_fn(Head(hs), pivot_node, set, max_next_hop, nb, next_hop,
                               routing_entry, sel)
         IN  IF r.applied THEN r.sel
             ELSE apply_heuristics(Tail(hs), pivot_node, set, max_next_hop, nb, next_hop,
                                   routing_entry, r.sel)

\* The next hop of an entry in select_entry: the cell before the pivot node
\* on the path of the entry, "" when the node is not on it
entry_next_hop(pivot_node, set, routing_entry) ==
    LET path == set[routing_entry].as_path
        index == find_index(path, pivot_node)
    IN  IF index = -1 THEN "" ELSE At(path, index - 1)

\* The loop of select_entry over the entries, in the given order
RECURSIVE select_entry_loop(_, _, _, _, _, _)
select_entry_loop(pivot_node, set, max_next_hop, nb, order, sel) ==
    IF order = <<>> THEN sel.entry
    ELSE select_entry_loop(pivot_node, set, max_next_hop, nb, Tail(order),
             apply_heuristics(heuristics(pivot_node), pivot_node, set, max_next_hop, nb,
                              entry_next_hop(pivot_node, set, Head(order)), Head(order), sel))

\* The entries select_entry can return: the first entry of the loop is
\* selected, every other one is compared with the selection
select_entry(pivot_node, entries, set, max_next_hop, nb) ==
    IF entries = {} THEN {NoEntry}
    ELSE {select_entry_loop(pivot_node, set, max_next_hop, nb, Tail(o),
              Selection(entry_next_hop(pivot_node, set, Head(o)), Head(o)))
            : o \in Orders(entries)}

\* search_map (m, MoreInt): the (key, nb) it can return; any key of the largest
\* value can come out, and nb counts the keys that have it
search_map_MoreInt(m) ==
    IF DOMAIN m = {} THEN {<<"", 0>>}
    ELSE LET extremum == CHOOSE v \in Range(m) : \A w \in Range(m) : w <= v
             holders == {s \in DOMAIN m : m[s] = extremum}
         IN  {<<s, Cardinality(holders)>> : s \in holders}


(***************************************************************************)
(* The RIB selector: the heuristics on a bucket, and the parser            *)
(***************************************************************************)
\* The prefix of the keys of a bucket, "" for an empty one
bucket_prefix(set) == IF DOMAIN set = {} THEN "" ELSE (CHOOSE key \in DOMAIN set : TRUE)[1]

\* The prefix a heuristic takes from the keys of a bucket: the one of the key
\* the range over the bucket gives first (or last), "" for an empty bucket
bucket_prefixes(set) == IF DOMAIN set = {} THEN {""} ELSE {key[1] : key \in DOMAIN set}

\* The AS paths of a bucket, in the order they were read: the keys are the
\* prefix and the counter
bucket_paths(set) ==
    [i \in 1..Cardinality(DOMAIN set) |->
        set[CHOOSE key \in DOMAIN set : key[2] = i - 1].as_path]

\* What a heuristic leaves: the prefix, the selected entry (or nil), the pivots
Outcome(prefix, s, pivots) == [prefix |-> prefix, s |-> s, pivots |-> pivots]

\* Mutation of the loop over the next hops: no pivot node is deleted
pivot_nodes_kept(b) == b.nodes.pivot_nodes

\* The pivot nodes the loop over the next hops leaves: a node that is at the
\* root of the path of one of its entries is deleted
pivot_nodes_left(b) ==
    {p \in b.nodes.pivot_nodes :
        \A e \in b.nodes.node_to_entries[p] : find_index(b.set[e].as_path, p) # 0}

\* The number of paths through every next hop of a pivot node, in the tree
\* and bucket that build_tree left
next_hops_count(b) ==
    LET through(p) == b.nodes.node_to_entries[p]
        at_root(p, e) == find_index(b.set[e].as_path, p) = 0
        hops == {entry_next_hop(pe[1], b.set, pe[2]) :
                    pe \in {q \in b.nodes.pivot_nodes \X DOMAIN b.set :
                               q[2] \in through(q[1]) /\ ~at_root(q[1], q[2])}}
    IN  [h \in hops |-> Cardinality(b.nodes.node_to_entries[h])]

\* The outcomes of the selection on a tree that build_tree left
valley_free_on(b) ==
    LET through(p) == b.nodes.node_to_entries[p]
        pivots == pivot_nodes_left(b)
        not_found == {e \in DOMAIN b.set : \A p \in pivots : e \notin through(p)}
        \* the sets of selected entries the loop over the pivots can leave
        selected_entries(sm) ==
            LET of_pivot == [p \in pivots |->
                                select_entry(p, through(p), b.set, sm[1], sm[2])]
            IN  {Range(f) : f \in {g \in [pivots -> DOMAIN b.set] :
                                      \A p \in pivots : g[p] \in of_pivot[p]}}
    IN  UNION {UNION {UNION {{Outcome(prefix, IF s = NoEntry THEN NoEntry ELSE b.set[s], pivots)
                                 : s \in select_entry("", selected \cup not_found, b.set, "", 0)}
                                : prefix \in bucket_prefixes(b.set)}
                         : selected \in selected_entries(sm)}
                  : sm \in search_map_MoreInt(next_hops_count(b))}

\* 1: the outcomes of the valley-free heuristic on a bucket
apply_valley_free_heuristic(set) == UNION {valley_free_on(b) : b \in build_tree(set)}

\* 0: the outcomes of the shortest-path heuristic on a bucket
apply_shortest_path_heuristic(set) ==
    UNION {{Outcome(prefix, IF s = NoEntry THEN NoEntry ELSE set[s], {})
               : s \in select_entry("", DOMAIN set, set, "", 0)}
              : prefix \in bucket_prefixes(set)}

apply_heuristic_fc(h, set) ==
    IF h = 0 THEN apply_shortest_path_heuristic(set) ELSE apply_valley_free_heuristic(set)

(***************************************************************************)
(* Overlays of a forwarding table                                          *)
(***************************************************************************)
IPv4PrefixLen == 32

\* The networks of the prefixes of the tables: an address and a mask length
Networks ==
    {[ip |-> <<10, 0, c, 0>>, mask |-> 24] : c \in 0..3}
        \cup {[ip |-> <<10, 0, c, 0>>, mask |-> 23] : c \in {0, 2}}
        \cup {[ip |-> <<10, 0, 0, 0>>, mask |-> 22]}

\* The text x.x.x.x/y of a network
network_String(ip, mask) ==
    ToString(ip[1]) \o "." \o ToString(ip[2]) \o "." \o ToString(ip[3]) \o "."
        \o ToString(ip[4]) \o "/" \o ToString(mask)

\* The network a text x.x.x.x/y is parsed to
ParseCIDR(prefix) == CHOOSE n \in Networks : network_String(n.ip, n.mask) = prefix

\* %08b of a byte: its 8 bits, the most significant first
byte_bits(b) == [i \in 1..8 |-> (b \div (2 ^ (8 - i))) % 2]

\* The number a string of bits is parsed to, in base 2
RECURSIVE ParseUint(_)
ParseUint(bits) ==
    IF bits = <<>> THEN 0 ELSE 2 * ParseUint(SubSeq(bits, 1, Len(bits) - 1)) + bits[Len(bits)]

\* The prefix as a binary string, cut at the mask length
get_binary_string(prefix) ==
    LET n == ParseCIDR(prefix)
    IN  SubSeq(byte_bits(n.ip[1]) \o byte_bits(n.ip[2]) \o byte_bits(n.ip[3])
                   \o byte_bits(n.ip[4]), 1, n.mask)

get_0_string(n) == [i \in 1..n |-> 0]

get_prefix_from_binary(binary) ==
    LET mask == Len(binary)
        padded == binary \o get_0_string(IPv4PrefixLen - mask)
    IN  network_String([b \in 1..4 |-> ParseUint(SubSeq(padded, 8 * b - 7, 8 * b))], mask)

RECURSIVE IntPow(_, _)
IntPow(n, m) == IF m = 0 THEN 1 ELSE n * IntPow(n, m - 1)

same(s) == \A x, y \in s : x = y

\* The longest string of bits every string of a set that is not empty starts
\* with
longestCommonPrefix(prefixes) ==
    LET smallest == CHOOSE x \in prefixes : \A y \in prefixes : Len(x) <= Len(y)
        agree(n) == \A x \in prefixes : \A i \in 1..n : x[i] = smallest[i]
    IN  SubSeq(smallest, 1, CHOOSE n \in 0..Len(smallest) :
                                agree(n) /\ \A t \in (n + 1)..Len(smallest) : ~agree(t))

RECURSIVE strings_Join(_)
strings_Join(elems) ==
    IF elems = <<>> THEN ""
    ELSE IF Len(elems) = 1 THEN elems[1]
    ELSE elems[1] \o " " \o strings_Join(Tail(elems))

\* A leaf of the radix tree: the binary string of a prefix, and its AS path
LeafNode(set, prefix) ==
    [Key |-> get_binary_string(prefix), Val |-> strings_Join(set[prefix].as_path)]

\* overlays.unsafe_append of a set of values under a key
unsafe_append_all(set, key, values) ==
    IF values = {} THEN set ELSE MapPut(set, key, LookupSet(set, key) \cup values)

\* Mutation of walk_radix_tree: the AS path of a more specific is not
\* compared with the one of the aggregate
walk_radix_tree_any_path(overlays_set, parent, children) ==
    unsafe_append_all(overlays_set, get_prefix_from_binary(parent.Key),
                      {get_prefix_from_binary(c.Key) : c \in children})

\* The function generate_walk_radix_tree returns, called on a leaf and on the
\* leaves right under it: the overlays it leaves
walk_radix_tree(overlays_set, parent, children) ==
    LET explicit == {c \in children : c.Val = parent.Val}
        marked == children \ explicit
        marked_prefixes == {c.Key : c \in marked}
        common_prefix == longestCommonPrefix(marked_prefixes)
        shortest == CHOOSE x \in marked_prefixes : \A y \in marked_prefixes : Len(x) <= Len(y)
        recorded == unsafe_append_all(overlays_set, get_prefix_from_binary(parent.Key),
                                      {get_prefix_from_binary(c.Key) : c \in explicit})
    IN  IF /\ Cardinality(marked) >= 2
           /\ common_prefix # <<>>
           /\ IntPow(2, Len(shortest) - Len(common_prefix)) = Cardinality(marked)
           /\ same({c.Val : c \in marked})
        THEN unsafe_append_all(recorded, get_prefix_from_binary(common_prefix),
                               {get_prefix_from_binary(x) : x \in marked_prefixes})
        ELSE recorded

\* Whether a binary string starts with another one and is longer
more_specific(key, aggregate) ==
    Len(aggregate) < Len(key) /\ SubSeq(key, 1, Len(aggregate)) = aggregate

\* Walk_post of the radix tree (the tree is of another package): the function
\* is called once on every leaf, with the leaves under it that have no leaf
\* between them and it
RECURSIVE Walk_post(_, _, _)
Walk_post(leaves, todo, overlays_set) ==
    IF todo = {} THEN overlays_set
    ELSE LET parent == CHOOSE l \in todo : TRUE
             under == {c \in leaves : more_specific(c.Key, parent.Key)}
             children == {c \in under : ~\E b \in under : more_specific(c.Key, b.Key)}
         IN  Walk_post(leaves, todo \ {parent}, walk_radix_tree(overlays_set, parent, children))

\* The groups of overlays of a forwarding table: the connected components of
\* the graph of the (aggregate, overlay) pairs
process_overlays(set) ==
    LET leaves == {LeafNode(set, prefix) : prefix \in DOMAIN set}
        found == Walk_post(leaves, leaves, <<>>)
        edges == UNION {{{aggregate, overlay} : overlay \in found[aggregate]}
                           : aggregate \in DOMAIN found}
    IN  {Connected_component({x}, edges) : x \in UNION edges}

\* The lines of the as-rel file the selector reads
RibAsRelChoices ==
    { { <<"Y", "X", "-1">>, <<"W", "Y", "-1">> },
      { <<"Y", "X", "0">>, <<"Y", "W", "0">> } }

\* The AS paths of the records, the collector's peer first and the origin last
AsPaths ==
    { <<"X", "Y", "P">>, <<"W", "Y", "P">>, <<"Y", "X", "P">>, <<"Y", "W", "P">>,
      <<"X", "X", "Y", "P">>, <<"X", "Y", "X", "P">> }

\* The number of fields of a line of bgpreader
RecordFields == 16

\* A line of bgpreader for an element of a RIB, with all its fields: the
\* prefix ("" for one that is not valid) and the AS path
rib_record(prefix, as_path) ==
    [elem_type |-> "R", fields |-> RecordFields, prefix |-> prefix, as_path |-> as_path]

\* The records of bgpreader
Records ==
    {rib_record("10.0.0.0/23", as_path) : as_path \in AsPaths}
        \cup {rib_record("10.0.0.0/24", <<"X", "Y", "P">>), rib_record("", <<"X", "P">>)}

\* The routing_entries_set after a heuristic has run
unsafe_add_selected(out) ==
    IF out.s = NoEntry THEN routing_entries_set
    ELSE MapPut(routing_entries_set, out.prefix, out.s)

\* The history of a selection: what it chose among, and its pivots
selection_recorded(set, out) ==
    IF DOMAIN set = {}
    THEN UNCHANGED <<selected_from, pivot_nodes>>
    ELSE /\ selected_from' = MapPut(selected_from, bucket_prefix(set), bucket_paths(set))
         /\ pivot_nodes' = MapPut(pivot_nodes, bucket_prefix(set), out.pivots)

\* generate_RIB_parser is called for a collector: the goroutine is launched
\* and the command is about to be started
RibStart ==
    /\ task_pc = "start"
    /\ rib_pc = "scanning"
    /\ ases_interest = <<"W">>
    /\ nb_records = 0
    /\ prev_prefix = ""
    /\ counter = 0
    /\ current_routing_entries_set = <<>>
    /\ routing_entries_set = <<>>
    /\ overlays_closure = {}
    /\ forwarding_table = <<>>
    /\ pivot_nodes = <<>>
    /\ selected_from = <<>>

InitRib ==
    /\ SchedStart("sequential", <<>>, <<>>, <<0, 1>>, <<0, <<1, 2>> >>)
    /\ StratIdle
    /\ \E lines \in RibAsRelChoices : as_neighbors = read_as_rel(lines)
    /\ bgp_records = Records
    /\ heuristic \in {0, 1}
    /\ RibStart
    /\ OriginIdle
    /\ DependentIdle

\* Whether a record makes the heuristic run on the bucket: its prefix is not
\* valid, or is not the prefix of the record before it
triggers(record) ==
    record.prefix = "" \/ (prev_prefix # "" /\ prev_prefix # record.prefix)

\* The receive on the done channel in start_and_wait can proceed: the
\* goroutine is at its send
done_mute == TRUE

done_received == rib_pc = "sending"

\* start_and_wait starts the command: on an error it returns false and the
\* task returns, else it waits on the done channel
cmd_Start ==
    /\ task_pc = "start"
    /\ task_pc' \in {"waiting", "returned"}
    /\ UNCHANGED <<ribInputs, originVars, dependentVars, rib_pc, nb_records, prev_prefix, counter,
                   current_routing_entries_set, routing_entries_set, overlays_closure,
                   forwarding_table, pivot_nodes, selected_from,
                   schedVars, as_neighbors, stratVars>>

\* Whether parse_bgp_record_multi can read the field s[index] of the line;
\* when it cannot, the function panics, recovery_function recovers and the
\* function returns ""
reads(record, index) == index < record.fields

\* The line is an element of a RIB whose prefix field can be read
parsed(record) == reads(record, 1) /\ record.elem_type = "R" /\ reads(record, 9)

\* One record of the table: the heuristic runs on the bucket when the prefix
\* changes or is not valid, then a valid record is added to the bucket. The
\* function returns "" for a line that is not an element of a RIB, and when
\* it panics on a field the line does not have: s[1] and s[9] before
\* anything is done, s[11] before the entry is recorded, s[12] after.
parse_bgp_record_multi ==
    /\ rib_pc = "scanning"
    /\ task_pc \notin {"start", "returned"}
    /\ nb_records < MaxRecords
    /\ \E record \in bgp_records :
          LET recorded == record.prefix # "" /\ reads(record, 11)
              returned == IF record.prefix # "" /\ reads(record, 12) THEN record.prefix ELSE ""
          IN  \/ /\ ~parsed(record)
                 /\ prev_prefix' = ""
                 /\ UNCHANGED <<current_routing_entries_set, counter, routing_entries_set,
                                selected_from, pivot_nodes>>
              \/ /\ parsed(record)
                 /\ triggers(record)
                 /\ \E out \in apply_heuristic_fc(heuristic, current_routing_entries_set) :
                       /\ routing_entries_set' = unsafe_add_selected(out)
                       /\ selection_recorded(current_routing_entries_set, out)
                 /\ current_routing_entries_set' =
                       IF recorded
                       THEN MapPut(<<>>, <<record.prefix, 0>>,
                                   get_Rib_entry(record.as_path, ases_interest, 1))
                       ELSE <<>>
                 /\ counter' = IF recorded THEN 1 ELSE 0
                 /\ prev_prefix' = returned
              \/ /\ parsed(record)
                 /\ ~triggers(record)
                 /\ current_routing_entries_set' =
                       IF recorded
                       THEN MapPut(current_routing_entries_set, <<record.prefix, counter>>,
                                   get_Rib_entry(record.as_path, ases_interest, 1))
                       ELSE current_routing_entries_set
                 /\ counter' = IF recorded THEN counter + 1 ELSE counter
                 /\ prev_prefix' = returned
                 /\ UNCHANGED <<routing_entries_set, selected_from, pivot_nodes>>
    /\ nb_records' = nb_records + 1
    /\ UNCHANGED <<ribInputs, originVars, dependentVars, task_pc, rib_pc, overlays_closure, forwarding_table,
                   schedVars, as_neighbors, stratVars>>

\* The scanner has no more line (the output is read to its end, or the
\* command could not start): the heuristic runs on the bucket of the last
\* prefix, and the goroutine goes to its send on the done channel
end_of_table ==
    /\ rib_pc = "scanning"
    /\ task_pc # "start"
    /\ \E out \in apply_heuristic_fc(heuristic, current_routing_entries_set) :
          /\ routing_entries_set' = unsafe_add_selected(out)
          /\ selection_recorded(current_routing_entries_set, out)
    /\ current_routing_entries_set' = <<>>
    /\ rib_pc' = "sending"
    /\ UNCHANGED <<ribInputs, originVars, dependentVars, task_pc, nb_records, prev_prefix, counter, overlays_closure,
                   forwarding_table, schedVars, as_neighbors, stratVars>>

\* The done channel has no buffer: the send of the goroutine and the receive
\* of start_and_wait happen together
done_channel ==
    /\ task_pc = "waiting"
    /\ done_received
    /\ task_pc' = "cmd_wait"
    /\ rib_pc' = IF rib_pc = "sending" THEN "done" ELSE rib_pc
    /\ UNCHANGED <<ribInputs, originVars, dependentVars, nb_records, prev_prefix, counter,
                   current_routing_entries_set, routing_entries_set, overlays_closure,
                   forwarding_table, pivot_nodes, selected_from,
                   schedVars, as_neighbors, stratVars>>

\* cmd.Wait returns: on an error start_and_wait returns false and the task
\* returns
cmd_Wait ==
    /\ task_pc = "cmd_wait"
    /\ task_pc' \in {"post_processing", "returned"}
    /\ UNCHANGED <<ribInputs, originVars, dependentVars, rib_pc, nb_records, prev_prefix, counter,
                   current_routing_entries_set, routing_entries_set, overlays_closure,
                   forwarding_table, pivot_nodes, selected_from,
                   schedVars, as_neighbors, stratVars>>

\* The post-processing of the task: the overlays are computed from the
\* selected entries and the forwarding table is written
post_processing ==
    /\ task_pc = "post_processing"
    /\ overlays_closure' = process_overlays(routing_entries_set)
    /\ forwarding_table' = routing_entries_set
    /\ task_pc' = "returned"
    /\ UNCHANGED <<ribInputs, originVars, dependentVars, rib_pc, nb_records, prev_prefix, counter,
                   current_routing_entries_set, routing_entries_set,
                   pivot_nodes, selected_from, schedVars, as_neighbors, stratVars>>

NextRib ==
    \/ cmd_Start
    \/ parse_bgp_record_multi
    \/ end_of_table
    \/ done_channel
    \/ cmd_Wait
    \/ post_processing

SpecRib == InitRib /\ [][NextRib]_vars

\* The table of a collector that has, for a prefix, paths through X that part
\* after it: the as-rel files rank the two next hops of X the same (peers,
\* customers, providers, or X not in the file), or differently
TieAsRelChoices ==
    { { <<"X", "Y", "0">>, <<"X", "Z", "0">> },
      { <<"X", "Y", "-1">>, <<"X", "Z", "-1">> },
      { <<"Y", "X", "-1">>, <<"Z", "X", "-1">> },
      { <<"W", "Y", "-1">> },
      { <<"X", "Z", "-1">>, <<"Y", "X", "-1">> } }

TieRecords ==
    {rib_record("10.0.0.0/23", as_path) : as_path \in { <<"X", "Y", "P">>, <<"X", "Z", "Y", "P">> }}
        \cup {rib_record("10.0.0.0/24", <<"X", "Z", "Y", "P">>), rib_record("", <<"X", "P">>)}

InitRibTie ==
    /\ SchedStart("sequential", <<>>, <<>>, <<0, 1>>, <<0, <<1, 2>> >>)
    /\ StratIdle
    /\ \E lines \in TieAsRelChoices : as_neighbors = read_as_rel(lines)
    /\ bgp_records = TieRecords
    /\ heuristic \in {0, 1}
    /\ RibStart
    /\ OriginIdle
    /\ DependentIdle

SpecRibTie == InitRibTie /\ [][NextRib]_vars


\* The forwarding tables process_overlays is given: at most one entry per
\* prefix, with one of two AS paths
ForwardingTables ==
    LET prefixes == {network_String(n.ip, n.mask) : n \in Networks}
    IN  UNION {[held -> {get_Rib_entry(<<"A", "B">>, <<"W">>, 1),
                         get_Rib_entry(<<"A", "C">>, <<"W">>, 1)}] : held \in SUBSET prefixes}

\* The table of a collector is read, every record of it was the only one of
\* its prefix, and start_and_wait has returned true
InitOverlays ==
    /\ SchedStart("sequential", <<>>, <<>>, <<0, 1>>, <<0, <<1, 2>> >>)
    /\ StratIdle
    /\ as_neighbors = <<>>
    /\ routing_entries_set \in ForwardingTables
    /\ bgp_records = {rib_record(prefix, as_path) :
                          prefix \in DOMAIN routing_entries_set,
                          as_path \in {<<"A", "B">>, <<"A", "C">>}}
    /\ heuristic = 0
    /\ ases_interest = <<"W">>
    /\ task_pc = "post_processing"
    /\ rib_pc = "done"
    /\ nb_records = Cardinality(DOMAIN routing_entries_set)
    /\ prev_prefix = ""
    /\ counter = 0
    /\ current_routing_entries_set = <<>>
    /\ overlays_closure = {}
    /\ forwarding_table = <<>>
    /\ pivot_nodes = <<>>
    /\ selected_from = <<>>
    /\ OriginIdle
    /\ DependentIdle

SpecOverlays == InitOverlays /\ [][post_processing]_vars

(***************************************************************************)
(* Properties of the RIB selector                                          *)
(***************************************************************************)
\* No two adjacent cells of the path are equal, and no AS is on it twice
de_prepended_loop_free(as_path) ==
    /\ \A i \in 1..(Len(as_path) - 1) : as_path[i] # as_path[i + 1]
    /\ ~routing_loop(as_path)

\* C6 (as stated): whichever heuristic is selected, the as_path of every entry
\* stored in the selected-entry map has no two adjacent equal ASNs and no ASN
\* that appears twice.
C6_StoredPathsClean ==
    \A prefix \in DOMAIN routing_entries_set :
        de_prepended_loop_free(routing_entries_set[prefix].as_path)

\* The relationships of the valley-free scenario: X is a customer of Y, and
\* W is a provider of Y
customer_and_provider ==
    /\ get_relationship("Y", "X") = Customer
    /\ get_relationship("Y", "W") = Provider

\* C10 (amended): valley-free selection, for a prefix whose only candidate
\* paths are [Y, X, P_dst] and [Y, W, P_dst], with relation(Y, X) = Customer
\* and relation(Y, W) = Provider: Y is the only pivot and the selected entry
\* is the one read as [Y, X, P_dst], stored with its path reversed, in whatever
\* order the candidates are read.
C10_CustomerNextHopSelected ==
    \A prefix \in DOMAIN selected_from :
        (/\ heuristic = 1
         /\ customer_and_provider
         /\ Range(selected_from[prefix]) = {<<"Y", "X", "P">>, <<"Y", "W", "P">>})
        => /\ pivot_nodes[prefix] = {"Y"}
           /\ prefix \in DOMAIN routing_entries_set
           /\ routing_entries_set[prefix].as_path = <<"P", "X", "Y">>

\* C10 witness: the path through the provider was read first, and the path
\* through the customer was selected at the pivot Y
C10_Witness ==
    \E prefix \in DOMAIN selected_from :
        /\ heuristic = 1
        /\ customer_and_provider
        /\ selected_from[prefix] = << <<"Y", "W", "P">>, <<"Y", "X", "P">> >>
        /\ pivot_nodes[prefix] = {"Y"}
        /\ prefix \in DOMAIN routing_entries_set
        /\ routing_entries_set[prefix].as_path = <<"P", "X", "Y">>

\* C10 (as stated): for a prefix whose only candidate paths are [X, Y, P_dst]
\* and [W, Y, P_dst], with relation(Y, X) = Customer and relation(Y, W) =
\* Provider, Y is a pivot and the selected entry is [X, Y, P_dst], in whatever
\* order the two candidates are read.
C10_PivotOnSharedSecondAS ==
    \A prefix \in DOMAIN selected_from :
        (/\ heuristic = 1
         /\ customer_and_provider
         /\ Range(selected_from[prefix]) = {<<"X", "Y", "P">>, <<"W", "Y", "P">>})
        => /\ "Y" \in pivot_nodes[prefix]
           /\ prefix \in DOMAIN routing_entries_set
           /\ routing_entries_set[prefix].as_path \in {<<"X", "Y", "P">>, <<"P", "Y", "X">>}

\* C11: valley-free selection, for a prefix whose only candidate paths are
\* [X, Y, P_dst] and [X, Z, Y, P_dst], when the relation of X with Y is the
\* relation of X with Z: the selected entry is the one read as [X, Y, P_dst]
\* (its path is stored reversed), in whatever order the candidates are read.
C11_TieSelectsThreeASPath ==
    \A prefix \in DOMAIN selected_from :
        (/\ heuristic = 1
         /\ get_relationship("X", "Y") = get_relationship("X", "Z")
         /\ Range(selected_from[prefix]) = {<<"X", "Y", "P">>, <<"X", "Z", "Y", "P">>})
        => /\ prefix \in DOMAIN routing_entries_set
           /\ routing_entries_set[prefix].as_path = <<"P", "Y", "X">>

\* C11 witness: the 4-AS path was read first, its next hop Z is a peer of X as
\* much as Y is, X is the pivot and the 3-AS path was selected
C11_Witness ==
    \E prefix \in DOMAIN selected_from :
        /\ heuristic = 1
        /\ get_relationship("X", "Y") = Peer
        /\ get_relationship("X", "Z") = Peer
        /\ selected_from[prefix] = << <<"X", "Z", "Y", "P">>, <<"X", "Y", "P">> >>
        /\ pivot_nodes[prefix] = {"X"}
        /\ prefix \in DOMAIN routing_entries_set
        /\ routing_entries_set[prefix].as_path = <<"P", "Y", "X">>

\* The forwarding table of the overlay scenario
overlay_scenario ==
    /\ DOMAIN routing_entries_set =
          {"10.0.0.0/22", "10.0.0.0/24", "10.0.1.0/24", "10.0.2.0/24", "10.0.3.0/24"}
    /\ \A prefix \in {"10.0.0.0/22", "10.0.0.0/24", "10.0.1.0/24"} :
          routing_entries_set[prefix].as_path = <<"A", "B">>
    /\ \A prefix \in {"10.0.2.0/24", "10.0.3.0/24"} :
          routing_entries_set[prefix].as_path = <<"A", "C">>

\* C12: from the selected entries 10.0.0.0/22, 10.0.0.0/24, 10.0.1.0/24 with
\* AS path "A B" and 10.0.2.0/24, 10.0.3.0/24 with AS path "A C",
\* process_overlays yields two groups: 10.0.0.0/22 with 10.0.0.0/24 and
\* 10.0.1.0/24, and the implicit aggregate 10.0.2.0/23 with 10.0.2.0/24 and
\* 10.0.3.0/24; no prefix of AS path "A C" is in the group of the /22.
C12_ExplicitAndImplicitGroups ==
    (task_pc = "returned" /\ overlay_scenario) =>
        overlays_closure = { {"10.0.0.0/22", "10.0.0.0/24", "10.0.1.0/24"},
                             {"10.0.2.0/23", "10.0.2.0/24", "10.0.3.0/24"} }

\* C12 witness: process_overlays has run on the table of the scenario and
\* left a group of the /22 without 10.0.2.0/24, and a group with it
C12_Witness ==
    /\ task_pc = "returned"
    /\ overlay_scenario
    /\ \E group \in overlays_closure :
          "10.0.0.0/22" \in group /\ "10.0.2.0/24" \notin group
    /\ \E group \in overlays_closure : "10.0.2.0/24" \in group


(***************************************************************************)
(* Properties of read_ip2as                                                *)
(***************************************************************************)
\* The prefixes of the ip2as file that hold a /24
covering(tile) == {p \in DOMAIN ip2as : tile \in get_subnets(p)}

\* C13 (as stated): when the prefixes of the ip2as file overlap, each /24 is
\* mapped in prefix24_as to the AS of the most specific prefix that covers it,
\* and the /24 is a member of as_24prefixes[a] exactly for that AS a.
C13_TileOnlyInMostSpecificAS ==
    \A tile \in DOMAIN prefix24_as :
        /\ \E p \in covering(tile) :
              /\ \A o \in covering(tile) : extract_mask_length(o) <= extract_mask_length(p)
              /\ prefix24_as[tile] = ip2as[p]
        /\ \A a \in DOMAIN as_24prefixes :
              tile \in as_24prefixes[a] <=> prefix24_as[tile] = a


(***************************************************************************)
(* Properties of the order of the ASes                                     *)
(***************************************************************************)
\* The ASes of the limits a strategy returned, the one of the internals left out
limit_ases == [i \in 1..(Len(as_limits) - 1) |-> as_limits[i + 1].asn]

\* The ASes observed in the directed probes, the AS of interest left out
observed_ases == (DOMAIN grouped_probes) \ {as_interest}

\* The rank of the group of an AS: customers, peers, providers, one-hop
\* neighbors, others
group_rank(as) ==
    IF as \in DOMAIN Lookup(as_neighbors, as_interest)
    THEN (CASE as_neighbors[as_interest][as] = Customer -> 0
            [] as_neighbors[as_interest][as] = Peer -> 1
            [] as_neighbors[as_interest][as] = Provider -> 2)
    ELSE IF as \in get_one_hop_neighbors THEN 3 ELSE 4

\* C14: strategy 20 visits the observed direct neighbors grouped as customers,
\* then peers, then providers, each group in ascending customer-cone size,
\* then the one-hop neighbors, then the others; with the neighbors C1
\* (customer, cone 5), C2 (customer, cone 2), P1 (peer, cone 10) and V1
\* (provider, cone 100) observed, the order of the segment is C2, C1, P1, V1.
C14_NeighborsByRelationThenCone ==
    (st_pc = "returned" /\ strategy = 20) =>
        /\ as_limits[1].asn = as_interest
        /\ Range(limit_ases) = observed_ases
        /\ Len(limit_ases) = Cardinality(observed_ases)
        /\ \A i, j \in 1..Len(limit_ases) :
              i < j => /\ group_rank(limit_ases[i]) <= group_rank(limit_ases[j])
                       /\ (group_rank(limit_ases[i]) = group_rank(limit_ases[j])
                               /\ group_rank(limit_ases[i]) <= 2)
                          => cone_weight(limit_ases[i]) <= cone_weight(limit_ases[j])
        /\ ({"C1", "C2", "P1", "V1"} \subseteq observed_ases
               /\ <<cone_weight("C1"), cone_weight("C2"), cone_weight("P1"), cone_weight("V1")>>
                      = <<5, 2, 10, 100>>)
           => SubSeq(limit_ases, 1, 4) = <<"C2", "C1", "P1", "V1">>

\* C14 witness: the four neighbors, the one-hop neighbor and the other AS are
\* observed, and strategy 20 returned them in the order of the claim
C14_Witness ==
    /\ st_pc = "returned" /\ strategy = 20
    /\ <<cone_weight("C1"), cone_weight("C2"), cone_weight("P1"), cone_weight("V1")>>
          = <<5, 2, 10, 100>>
    /\ observed_ases = {"C1", "C2", "P1", "V1", "H", "O"}
    /\ limit_ases = <<"C2", "C1", "P1", "V1", "H", "O">>

(***************************************************************************)
(* add_AS_probes as a function of its arguments                            *)
(***************************************************************************)
\* The ASes and the probes of the calls of add_AS_probes
CallASes == {"A", "B", "C"}
CallProbes == {"p1", "p2"}

\* s and limits are empty, or hold the internal prefix and its limit; the map
\* gives some of the ASes a set of probes, which may be empty
InitAddProbes ==
    /\ SchedStart("sequential", <<>>, <<>>, <<0, 1>>, <<0, <<1, 2>> >>)
    /\ RibIdle /\ OriginIdle /\ DependentIdle
    /\ as_neighbors = <<>>
    /\ ip2as = <<>>
    /\ ppdc = <<>>
    /\ as_24prefixes = <<>>
    /\ prefix24_as = <<>>
    /\ as_cc_size = <<>>
    /\ break_prefix = TRUE
    /\ directed_prefixes = <<>>
    /\ target_to_vp = [fake |-> "", set |-> <<>>]
    /\ overlay_files = {}
    /\ \E S \in SUBSET CallASes : call_ases \in Orders(S)
    /\ st_pc = "adding"
    /\ strategy = -1
    /\ \E acc \in {NoProbes, add_one_AS(NoProbes, as_interest, <<"p3">>)} :
        /\ ordered_targets = acc.s
        /\ as_limits = acc.limits
    /\ as_limits_file = <<>>
    /\ \E keys \in SUBSET CallASes : AS_probes \in [keys -> SUBSET CallProbes]
    /\ grouped_probes = <<>>

\* s, limits = add_AS_probes (s, ases, AS_probes, limits, _get_24_prefix)
add_AS_probes_call ==
    /\ st_pc = "adding"
    /\ \E r \in add_AS_probes([s |-> ordered_targets, limits |-> as_limits], call_ases, AS_probes) :
        /\ ordered_targets' = r.s
        /\ as_limits' = r.limits
    /\ st_pc' = "added"
    /\ UNCHANGED <<schedVars, stratInputs, ribVars, originVars, dependentVars, strategy, as_limits_file, AS_probes,
                   grouped_probes>>

SpecAddProbes == InitAddProbes /\ [][add_AS_probes_call]_vars

\* The entries of the limits the call appended: the ones that are not the
\* entry of the internal prefixes
appended_limits == {i \in 1..Len(as_limits) : as_limits[i].asn # as_interest}

\* The ASes of the call that are keys of the map, in the order of the call
RECURSIVE present_ases(_)
present_ases(ases) ==
    IF ases = <<>> THEN <<>>
    ELSE IF Head(ases) \in DOMAIN AS_probes
         THEN <<Head(ases)>> \o present_ases(Tail(ases))
         ELSE present_ases(Tail(ases))

\* C15 (as stated): add_AS_probes appends a limit only after an AS that
\* contributed at least one probe: an AS that is absent from the map or present
\* with an empty set adds no limit, so every appended limit is greater than
\* the limit before it
C15_LimitOnlyAfterProbes ==
    st_pc = "added" =>
        \A i \in appended_limits :
            /\ as_limits[i].asn \in DOMAIN AS_probes
            /\ AS_probes[as_limits[i].asn] # {}
            /\ previous_limit(i) < as_limits[i].limit

\* C15 (amended): add_AS_probes appends a limit after every AS that is a key
\* of the map, in the order of the call: an absent AS adds no probe and no
\* limit, an AS present with an empty set adds no probe and a limit equal to
\* the limit before it, and every other AS a limit greater by its number of
\* probes
C15_LimitAfterEveryKey ==
    st_pc = "added" =>
        /\ Len(as_limits) - Cardinality(appended_limits) \in {0, 1}
        /\ LET first == Len(as_limits) - Cardinality(appended_limits)
               keys == present_ases(call_ases)
           IN /\ Cardinality(appended_limits) = Len(keys)
              /\ \A n \in 1..Len(keys) :
                    /\ as_limits[first + n].asn = keys[n]
                    /\ as_limits[first + n].limit =
                          previous_limit(first + n) + Cardinality(AS_probes[keys[n]])
        /\ Len(ordered_targets) = IF as_limits = <<>> THEN 0 ELSE as_limits[Len(as_limits)].limit

\* C15 witness: a call with an absent AS, an AS with an empty set and an AS
\* with probes has returned; the AS with the empty set has a limit equal to
\* the one before it
C15_Witness ==
    /\ st_pc = "added"
    /\ \E a \in Range(call_ases) : a \notin DOMAIN AS_probes
    /\ \E i \in appended_limits :
        /\ AS_probes[as_limits[i].asn] = {}
        /\ previous_limit(i) = as_limits[i].limit
        /\ i > 1
    /\ \E i \in appended_limits : previous_limit(i) < as_limits[i].limit

(***************************************************************************)
(* Properties of the groups of the directed probing strategies             *)
(***************************************************************************)
\* The directed probes bucketed under the given ASes
probes_under(ases) == UNION {grouped_probes[a] : a \in ases \cap DOMAIN grouped_probes}

\* The positions of a probe in the target list
positions(probe) == {i \in 1..Len(ordered_targets) : ordered_targets[i] = probe}

\* The observed direct neighbors of the AS of interest
observed_neighbors == observed_ases \cap DOMAIN Lookup(as_neighbors, as_interest)

\* C16: strategy 8 returns the internals, then the probes of the observed
\* direct neighbors, then the probes of the one-hop neighbors and of the
\* others mixed: every directed probe is in the target list exactly once, the
\* probes of the neighbors after the internals and before the mixed group.
C16_NeighborsBetweenInternalsAndMixed ==
    (st_pc = "returned" /\ strategy = 8) =>
        /\ \A p \in probes_under(DOMAIN grouped_probes) : Cardinality(positions(p)) = 1
        /\ \A p \in probes_under(observed_neighbors) : \A i \in positions(p) :
              /\ \A q \in probes_under({as_interest}) : \A j \in positions(q) : j < i
              /\ \A q \in probes_under(observed_ases \ observed_neighbors) :
                    \A j \in positions(q) : i < j

\* The same groups for strategy 9, which passes the ordered neighbors
Strategy9ListsNeighbors ==
    (st_pc = "returned" /\ strategy = 9) =>
        /\ \A p \in probes_under(DOMAIN grouped_probes) : Cardinality(positions(p)) = 1
        /\ \A p \in probes_under(observed_neighbors) : \A i \in positions(p) :
              /\ \A q \in probes_under({as_interest}) : \A j \in positions(q) : j < i
              /\ \A q \in probes_under(observed_ases \ observed_neighbors) :
                    \A j \in positions(q) : i < j

(***************************************************************************)
(* parse_ribs: the collector tasks and the origin-AS set they share        *)
(***************************************************************************)
\* The collectors of the collectors file
Collectors == {"rrc00", "rrc01"}

\* Number of valid records of a collector
MaxAppends == 2

\* The (origin AS, prefix) the valid records of a collector can carry
OriginAppends == {<<as, prefix>> : as \in {"A", "B"}, prefix \in {"10.0.0.0/24", "10.0.1.0/24"}}

AppendSeqs == UNION {[1..n -> OriginAppends] : n \in 0..MaxAppends}

\* origin_set := create_safeset (), then pool.Launch_pool (16, collectors, f):
\* every collector has its task
InitOrigin ==
    /\ SchedStart("sequential", <<>>, <<>>, <<0, 1>>, <<0, <<1, 2>> >>)
    /\ StratIdle
    /\ RibIdle
    /\ as_neighbors = <<>>
    /\ collector_appends \in [Collectors -> AppendSeqs]
    /\ origin_set = <<>>
    /\ origin_mux = NoOwner
    /\ collector_pc = [c \in Collectors |-> "parsing"]
    /\ collector_next = [c \in Collectors |-> 1]
    /\ collector_ok = [c \in Collectors |-> FALSE]
    /\ pool_pc = "pool"
    /\ DependentIdle

\* The record origin_set.append is called for
current_append(c) == collector_appends[c][collector_next[c]]

\* Mutation of mux_Lock_returns: Lock never waits
mux_Lock_unguarded(c) == TRUE

\* set.mux.Lock () returns when no other goroutine holds the mutex
mux_Lock_returns(c) == origin_mux = NoOwner

\* What parse_ribs and its tasks leave alone
notOrigin == <<schedVars, as_neighbors, stratVars, ribVars, dependentVars>>

\* origin_set.append (origin_as, network.String ()): the mutex is taken
append_Lock(c) ==
    /\ collector_pc[c] = "parsing"
    /\ collector_next[c] <= Len(collector_appends[c])
    /\ mux_Lock_returns(c)
    /\ origin_mux' = c
    /\ collector_pc' = [collector_pc EXCEPT ![c] = "locked"]
    /\ UNCHANGED <<notOrigin, collector_appends, origin_set, collector_next, collector_ok, pool_pc>>

\* _append_to_set: p, ok := set.unsafe_get (key)
_append_to_set_get(c) ==
    /\ collector_pc[c] = "locked"
    /\ collector_ok' = [collector_ok EXCEPT ![c] = current_append(c)[1] \in DOMAIN origin_set]
    /\ collector_pc' = [collector_pc EXCEPT ![c] = "got"]
    /\ UNCHANGED <<notOrigin, collector_appends, origin_set, origin_mux, collector_next, pool_pc>>

\* _append_to_set: the value is added to the map that was read, which is the
\* map of the key, or a new map with the value alone is stored
_append_to_set_add(c) ==
    /\ collector_pc[c] = "got"
    /\ LET key == current_append(c)[1]
           value == current_append(c)[2]
       IN  origin_set' = IF collector_ok[c]
                         THEN MapPut(origin_set, key, LookupSet(origin_set, key) \cup {value})
                         ELSE MapPut(origin_set, key, {value})
    /\ collector_pc' = [collector_pc EXCEPT ![c] = "added"]
    /\ UNCHANGED <<notOrigin, collector_appends, origin_mux, collector_next, collector_ok, pool_pc>>

\* set.mux.Unlock (), and the task goes on with its next record
append_Unlock(c) ==
    /\ collector_pc[c] = "added"
    /\ origin_mux' = NoOwner
    /\ collector_next' = [collector_next EXCEPT ![c] = @ + 1]
    /\ collector_pc' = [collector_pc EXCEPT ![c] = "parsing"]
    /\ UNCHANGED <<notOrigin, collector_appends, origin_set, collector_ok, pool_pc>>

\* The records of the collector are all read: the task ends
task_ends(c) ==
    /\ collector_pc[c] = "parsing"
    /\ collector_next[c] > Len(collector_appends[c])
    /\ collector_pc' = [collector_pc EXCEPT ![c] = "ended"]
    /\ UNCHANGED <<notOrigin, collector_appends, origin_set, origin_mux, collector_next,
                   collector_ok, pool_pc>>

\* pool.Launch_pool returns when every task has ended; origin_set is written
Launch_pool_returns ==
    /\ pool_pc = "pool"
    /\ \A c \in Collectors : collector_pc[c] = "ended"
    /\ pool_pc' = "post_processing"
    /\ UNCHANGED <<notOrigin, collector_appends, origin_set, origin_mux, collector_pc,
                   collector_next, collector_ok>>

NextOrigin ==
    \/ \E c \in Collectors : append_Lock(c)
    \/ \E c \in Collectors : _append_to_set_get(c)
    \/ \E c \in Collectors : _append_to_set_add(c)
    \/ \E c \in Collectors : append_Unlock(c)
    \/ \E c \in Collectors : task_ends(c)
    \/ Launch_pool_returns

SpecOrigin == InitOrigin /\ [][NextOrigin]_vars

\* The prefixes the appends of a collector that have returned gave to an AS
RECURSIVE appended_by(_, _, _)
appended_by(c, as, n) ==
    IF n = 0 THEN {}
    ELSE appended_by(c, as, n - 1) \cup
         (IF collector_appends[c][n][1] = as THEN {collector_appends[c][n][2]} ELSE {})

appended_to(as) == UNION {appended_by(c, as, collector_next[c] - 1) : c \in Collectors}

\* C17: a collector task reads and writes the origin-AS set only while it holds
\* the mutex of the set, no append that has returned is lost, and once every
\* task has ended origin_set[as] is the union of the prefixes the tasks
\* appended for the AS, under every interleaving.
C17_NoLostAppend ==
    pool_pc # "idle" =>
        /\ \A c \in Collectors :
              collector_pc[c] \in {"locked", "got", "added"} => origin_mux = c
        /\ \A as \in {"A", "B"} : appended_to(as) \subseteq LookupSet(origin_set, as)
        /\ pool_pc = "post_processing" =>
              /\ DOMAIN origin_set = {as \in {"A", "B"} : appended_to(as) # {}}
              /\ \A as \in DOMAIN origin_set : origin_set[as] = appended_to(as)

\* C17 witness: the pool has returned after two collectors appended different
\* prefixes to the same AS, and both prefixes are in the set
C17_Witness ==
    /\ pool_pc = "post_processing"
    /\ \E as \in DOMAIN origin_set :
          /\ appended_by("rrc00", as, Len(collector_appends["rrc00"])) = {"10.0.0.0/24"}
          /\ appended_by("rrc01", as, Len(collector_appends["rrc01"])) = {"10.0.1.0/24"}
          /\ origin_set[as] = {"10.0.0.0/24", "10.0.1.0/24"}

\* C17 witness of the contention: a collector waits for the mutex another
\* collector holds in the middle of its read-modify-write
CollectorWaitsForMutex ==
    /\ collector_pc["rrc00"] = "got"
    /\ collector_pc["rrc01"] = "parsing"
    /\ collector_next["rrc01"] <= Len(collector_appends["rrc01"])

(***************************************************************************)
(* Properties of the task of a collector and its parser goroutine          *)
(***************************************************************************)
\* C18: the task is at cmd.Wait, or past it, only after the parser goroutine
\* has sent on the done channel, that is after the scanner loop has ended and
\* the heuristic has run on the bucket of the last prefix; the
\* post-processing reads the selected entries only after that signal, so what
\* it writes is the final selection.
C18_WaitAfterParserDone ==
    /\ task_pc \in {"cmd_wait", "post_processing"} =>
          rib_pc = "done" /\ current_routing_entries_set = <<>>
    /\ (forwarding_table # <<>> \/ overlays_closure # {}) =>
          /\ task_pc = "returned"
          /\ rib_pc = "done"
          /\ current_routing_entries_set = <<>>
          /\ forwarding_table = routing_entries_set
    /\ rib_pc = "done" => task_pc \in {"cmd_wait", "post_processing", "returned"}

\* C18, as a property of the steps: the goroutine takes no step once the task
\* is past the done channel
C18_NoParsingAfterDone ==
    [][(task_pc \in {"cmd_wait", "post_processing"}) =>
          (/\ rib_pc' = rib_pc
           /\ routing_entries_set' = routing_entries_set
           /\ current_routing_entries_set' = current_routing_entries_set)]_vars

\* C18 witness: the post-processing has written the forwarding table of a
\* collector whose last bucket held two records
C18_Witness ==
    /\ task_pc = "returned"
    /\ rib_pc = "done"
    /\ nb_records >= 2
    /\ forwarding_table # <<>>
    /\ \E prefix \in DOMAIN selected_from : Len(selected_from[prefix]) >= 2

(***************************************************************************)
(* Properties of the counter of the discovery lines                        *)
(***************************************************************************)
\* The number of probes replayed so far
RECURSIVE replayed_upto(_)
replayed_upto(n) == IF n = 0 THEN 0 ELSE replayed_upto(n - 1) + Len(replayed[n])

nb_replayed == replayed_upto(Len(replayed))

\* A step that records a discovery line records it under the number of the
\* probes replayed before it, which is no counter of an earlier line
line_numbered ==
    results' # results =>
        /\ nb_replayed \notin DOMAIN results
        /\ DOMAIN results' = (DOMAIN results) \cup {nb_replayed}

\* C19: in every scheduler the counter recorded on a discovery line is the
\* number of the probe, the count of the probes replayed before it, and no
\* two discovery lines carry the same counter.
C19_CounterIsProbeRank == [][line_numbered]_vars

\* The same for the sequential scheduler alone
SequentialCounterIsProbeRank == [][mode = "sequential" => line_numbered]_vars

\* In every scheduler a discovery line is recorded under a counter that no
\* earlier line carries
CountersDistinct ==
    [][results' # results =>
          \E n \in 0..nb_replayed : /\ n \notin DOMAIN results
                                    /\ DOMAIN results' = (DOMAIN results) \cup {n}]_vars

(***************************************************************************)
(* Properties of the runs of the valley-free heuristic                     *)
(***************************************************************************)
\* The AS paths the valley-free heuristic can select in a bucket, over the
\* orders in which the entries are put in the tree and examined
selectable_paths(set) ==
    {IF out.s = NoEntry THEN <<>> ELSE out.s.as_path : out \in apply_valley_free_heuristic(set)}

\* C20: for the candidate entries of a prefix and the AS relationships of the
\* run, the AS path the valley-free heuristic selects is the same in every
\* run: it does not depend on the order in which the candidates are put in
\* the tree of paths or examined by select_entry.
C20_SelectionIndependentOfOrder ==
    (heuristic = 1 /\ rib_pc = "scanning") =>
        Cardinality(selectable_paths(current_routing_entries_set)) <= 1

\* The same for buckets where the next-hop popularity heuristic decides: the
\* two paths [X, Y, P] and [X, Z, Y, P] alone
PopularitySelectionIndependentOfOrder ==
    (heuristic = 1 /\ rib_pc = "scanning"
        /\ Range(bucket_paths(current_routing_entries_set))
               = {<<"X", "Y", "P">>, <<"X", "Z", "Y", "P">>}) =>
        Cardinality(selectable_paths(current_routing_entries_set)) = 1

(***************************************************************************)
(* Properties of the greedy scheduler                                      *)
(***************************************************************************)
\* A step of the greedy scheduler that replays a probe which discovers nothing
greedy_miss ==
    mode = "greedy" /\ pc = "probe" /\ replayed' # replayed /\ results' = results

\* What the greedy scheduler does after such a probe of the AS it visits
greedy_after_miss ==
    LET as == ases_status[ai]
        after == ases_status'[ai]
        plateau_hit == plateau_reached(after.plateau, as.end - as.start, threshold_parameter)
    IN  /\ after.plateau = as.plateau + 1
        /\ plateau_hit => after.stopped /\ pc' = "ases" /\ ai' = ai + 1
        /\ ~plateau_hit =>
              /\ pc' = "probe" /\ ai' = ai
              /\ discovery' = (as.position = 0)
              /\ after.stopped = (after.curr_probe = as.end)

\* C21: in a visit of the greedy scheduler an AS that is not at position 0 is
\* left right after its first probe without discovery, and is not stopped by
\* it, so the next iteration resumes it; the AS at position 0 goes on through
\* such probes until its range is exhausted or its plateau is exceeded; the
\* plateau stops an AS of any position.
C21_GreedyLeavesOnFirstMiss ==
    [][/\ greedy_miss => greedy_after_miss
       /\ (mode = "greedy" /\ pc = "probe" /\ ~discovery) =>
             (replayed' = replayed /\ ai' = ai + 1 /\ pc' = "ases")]_vars

\* C21 witness: at a later iteration the greedy scheduler is about to probe
\* again an AS that is not at position 0, whose first probe discovered nothing
C21_Witness ==
    /\ mode = "greedy" /\ pc = "probe" /\ iteration >= 1 /\ discovery
    /\ ases_status[ai].position # 0
    /\ ~ases_status[ai].stopped
    /\ ases_status[ai].curr_probe = ases_status[ai].start + 1
    /\ traces[sorted_destinations[ases_status[ai].start + 1]] = NoTrace

\* C21 witness for position 0: the AS at position 0 has been probed twice
\* without discovery in the first visit
GreedyInternalsGoOn ==
    /\ mode = "greedy" /\ pc = "probe" /\ iteration = 0 /\ discovery
    /\ ases_status[ai].position = 0
    /\ ases_status[ai].plateau >= 2

(***************************************************************************)
(* Properties of the stopped ASes                                          *)
(***************************************************************************)
\* The probes of the AS of a status that have been replayed
replayed_of(as) == replayed[as.position + 1]

\* C22: in the batched-parallel and greedy schedulers, once an AS is stopped
\* launch_as_probing returns none of its targets: it stays stopped, no probe
\* of it is replayed and the discovery sets are not changed on its visits.
C22_StoppedASNotProbed ==
    [][(mode \in {"parallel", "greedy"}) =>
          \A j \in DOMAIN ases_status :
              ases_status[j].stopped =>
                  /\ ases_status'[j].stopped
                  /\ replayed'[ases_status[j].position + 1] = replayed_of(ases_status[j])
                  /\ (pc = "probe" /\ ai = j) => (disc' = disc /\ results' = results)]_vars

\* C22 witness: an AS that a plateau stopped before its last target is visited
\* again at a later iteration
C22_Witness ==
    /\ mode \in {"parallel", "greedy"} /\ pc = "probe" /\ iteration >= 1
    /\ ases_status[ai].stopped
    /\ Len(replayed_of(ases_status[ai])) >= 1
    /\ Len(replayed_of(ases_status[ai])) < ases_status[ai].end - ases_status[ai].start
    /\ ases_status[ai].curr_probe < ases_status[ai].end


(***************************************************************************)
(* The next-hop popularity heuristic where no compared entry has the most  *)
(* popular next hop                                                        *)
(***************************************************************************)
\* The as-rel files: A and B are customers of X, and Y is its provider or
\* another customer of it
PopularAsRelChoices ==
    { { <<"X", "A", "-1">>, <<"X", "B", "-1">>, <<"Y", "X", "-1">> },
      { <<"X", "A", "-1">>, <<"X", "B", "-1">>, <<"X", "Y", "-1">> } }

\* The table of a collector whose peer X has, for a prefix, a path through
\* each of A, B and Y, the one through B going through Y too
PopularRecords ==
    {rib_record("10.0.0.0/23", as_path) :
        as_path \in { <<"X", "A", "P">>, <<"X", "B", "Y", "P">>, <<"X", "Y", "P">> }}
        \cup {rib_record("10.0.0.0/24", <<"X", "A", "P">>)}

InitRibPopular ==
    /\ SchedStart("sequential", <<>>, <<>>, <<0, 1>>, <<0, <<1, 2>> >>)
    /\ StratIdle
    /\ \E lines \in PopularAsRelChoices : as_neighbors = read_as_rel(lines)
    /\ bgp_records = PopularRecords
    /\ heuristic \in {0, 1}
    /\ RibStart
    /\ OriginIdle
    /\ DependentIdle

SpecRibPopular == InitRibPopular /\ [][NextRib]_vars

\* Entries e and f of the pivot p have next hops of the same relation to p,
\* and neither next hop is the single most popular one
popularity_undecided(b, p, e, f) ==
    LET nh(x) == entry_next_hop(p, b.set, x)
    IN  /\ get_relationship(p, nh(e)) = get_relationship(p, nh(f))
        /\ \A sm \in search_map_MoreInt(next_hops_count(b)) :
              sm[2] = 1 => sm[1] \notin {nh(e), nh(f)}

\* The entry select_entry returns for the pivot p is not longer than the
\* entry f when popularity does not decide between the two
shorter_selected(b, p, f) ==
    \A sm \in search_map_MoreInt(next_hops_count(b)) :
        \A s \in select_entry(p, b.nodes.node_to_entries[p], b.set, sm[1], sm[2]) :
            popularity_undecided(b, p, s, f) =>
                Len(b.set[s].as_path) <= Len(b.set[f].as_path)

\* C23: at a pivot, when two compared entries have next hops with the same
\* relation to the pivot and neither next hop is the single most popular next
\* hop, the popularity heuristic does not decide and the entry with the
\* shorter AS path is preferred: the entry selected for the pivot is never
\* longer than such an entry.
C23_ShorterWhenPopularityUndecided ==
    (heuristic = 1 /\ rib_pc = "scanning") =>
        \A b \in build_tree(current_routing_entries_set) :
            \A p \in pivot_nodes_left(b) :
                \A f \in b.nodes.node_to_entries[p] : shorter_selected(b, p, f)

\* The same where several next hops are the most popular ones: the heuristic
\* is skipped and the shorter path is selected
no_single_most_popular(b) ==
    \A sm \in search_map_MoreInt(next_hops_count(b)) : sm[2] # 1

ShorterWhenPopularityTied ==
    (heuristic = 1 /\ rib_pc = "scanning") =>
        \A b \in build_tree(current_routing_entries_set) :
            no_single_most_popular(b) =>
                \A p \in pivot_nodes_left(b) :
                    \A f \in b.nodes.node_to_entries[p] : shorter_selected(b, p, f)

\* A bucket where a single next hop is the most popular and two entries of
\* other next hops, of the same relation to the pivot, have different lengths
PopularityUndecidedReached ==
    /\ heuristic = 1
    /\ rib_pc = "scanning"
    /\ \E b \in build_tree(current_routing_entries_set) :
          \E p \in pivot_nodes_left(b) :
              \E e, f \in b.nodes.node_to_entries[p] :
                  /\ popularity_undecided(b, p, e, f)
                  /\ ~no_single_most_popular(b)
                  /\ Len(b.set[e].as_path) < Len(b.set[f].as_path)


(***************************************************************************)
(* Properties of the walk of the radix tree                                *)
(***************************************************************************)
\* The leaves Walk_post gives with a leaf of a table: the ones right under it
children_of(leaves, parent) ==
    LET under == {c \in leaves : more_specific(c.Key, parent.Key)}
    IN  {c \in under : ~\E b \in under : more_specific(c.Key, b.Key)}

leaves_of(set) == {LeafNode(set, prefix) : prefix \in DOMAIN set}

\* The children of a leaf whose AS path is not the one of the leaf
marked_children(parent, children) == {c \in children : c.Val # parent.Val}

\* The walk function has recorded the marked children of a leaf under an
\* implicit aggregate: they are overlays although their path is not the
\* parent's
implicit_recorded(parent, children) ==
    LET found == walk_radix_tree(<<>>, parent, children)
    IN  \E aggregate \in DOMAIN found :
            \E c \in marked_children(parent, children) :
                get_prefix_from_binary(c.Key) \in found[aggregate]

\* Leaves tile an aggregate: one key length, 2^(key length - length of the
\* common prefix) of them, a common prefix, one AS path
tile(marked) ==
    LET keys == {c.Key : c \in marked}
    IN  /\ \A x, y \in keys : Len(x) = Len(y)
        /\ longestCommonPrefix(keys) # <<>>
        /\ \A x \in keys :
              Cardinality(keys) = IntPow(2, Len(x) - Len(longestCommonPrefix(keys)))
        /\ same({c.Val : c \in marked})

\* C24: the walk of the radix tree records an implicit aggregate only when
\* the children of a leaf that do not have its AS path tile the aggregate:
\* same key length, 2^(key length - length of the common prefix) of them, a
\* common prefix that is not empty, one AS path. Children of different
\* lengths never make an implicit aggregate.
C24_ImplicitAggregateTiled ==
    task_pc = "returned" =>
        \A parent \in leaves_of(forwarding_table) :
            LET children == children_of(leaves_of(forwarding_table), parent)
            IN  implicit_recorded(parent, children) =>
                    tile(marked_children(parent, children))

\* The same for the leaves whose marked children have one key length
ImplicitAggregateOfOneLengthTiled ==
    task_pc = "returned" =>
        \A parent \in leaves_of(forwarding_table) :
            LET children == children_of(leaves_of(forwarding_table), parent)
                marked == marked_children(parent, children)
            IN  (implicit_recorded(parent, children)
                    /\ \A x, y \in marked : Len(x.Key) = Len(y.Key)) => tile(marked)

\* An implicit aggregate was recorded for children that tile it
TiledAggregateRecorded ==
    /\ task_pc = "returned"
    /\ \E parent \in leaves_of(forwarding_table) :
          LET children == children_of(leaves_of(forwarding_table), parent)
          IN  implicit_recorded(parent, children) /\ tile(marked_children(parent, children))

\* C25: in every group of overlays process_overlays computes, the prefixes
\* that are in the forwarding table have the same selected AS path.
C25_GroupHasOnePath ==
    task_pc = "returned" =>
        \A group \in overlays_closure :
            \A x, y \in group \cap DOMAIN forwarding_table :
                forwarding_table[x].as_path = forwarding_table[y].as_path

\* The aggregate of every implicit record of the table is a prefix the table
\* does not hold
implicit_aggregates_absent ==
    \A parent \in leaves_of(forwarding_table) :
        LET children == children_of(leaves_of(forwarding_table), parent)
            keys == {c.Key : c \in marked_children(parent, children)}
        IN  implicit_recorded(parent, children) =>
                get_prefix_from_binary(longestCommonPrefix(keys)) \notin DOMAIN forwarding_table

\* The same for the tables whose implicit aggregates are not entries of the
\* table
GroupHasOnePathWithoutAggregateEntry ==
    (task_pc = "returned" /\ implicit_aggregates_absent) => C25_GroupHasOnePath


(***************************************************************************)
(* Pivot nodes and the roots of the paths                                  *)
(***************************************************************************)
\* The table of a collector that has, for a prefix, paths of two origins: P,
\* and Y that is on the paths to P
OriginsRecords ==
    {rib_record("10.0.0.0/23", as_path) :
        as_path \in { <<"X", "Y", "P">>, <<"X", "Y">>, <<"W", "Y", "P">>, <<"W", "X", "Y">> }}
        \cup {rib_record("10.0.0.0/24", <<"X", "Y", "P">>)}

InitRibOrigins ==
    /\ SchedStart("sequential", <<>>, <<>>, <<0, 1>>, <<0, <<1, 2>> >>)
    /\ StratIdle
    /\ \E lines \in RibAsRelChoices : as_neighbors = read_as_rel(lines)
    /\ bgp_records = OriginsRecords
    /\ heuristic \in {0, 1}
    /\ RibStart
    /\ OriginIdle
    /\ DependentIdle

SpecRibOrigins == InitRibOrigins /\ [][NextRib]_vars

\* The nodes at index 0 of the reversed path of an entry of the bucket
origins_of(b) == {At(b.set[e].as_path, 0) : e \in DOMAIN b.set}

\* C26: when select_entry is called for a pivot node, every entry through the
\* pivot has it at index 1 or more of its reversed path, so path[index - 1]
\* is in the path: every node that is the origin (index 0) of a candidate
\* path was removed from the pivot nodes before any selection.
C26_PivotNeverAtRoot ==
    (heuristic = 1 /\ rib_pc = "scanning") =>
        \A b \in build_tree(current_routing_entries_set) :
            /\ \A p \in pivot_nodes_left(b) :
                  \A e \in b.nodes.node_to_entries[p] :
                      /\ find_index(b.set[e].as_path, p) >= 1
                      /\ find_index(b.set[e].as_path, p) - 1 < Len(b.set[e].as_path)
            /\ origins_of(b) \cap pivot_nodes_left(b) = {}

\* C26 witness: a bucket whose tree has a pivot node at the root of a path,
\* and another pivot node that select_entry is called for
C26_Witness ==
    /\ heuristic = 1
    /\ rib_pc = "scanning"
    /\ \E b \in build_tree(current_routing_entries_set) :
          /\ origins_of(b) \cap b.nodes.pivot_nodes # {}
          /\ pivot_nodes_left(b) # {}

\* The selections that were made had no origin of a candidate path as pivot
SelectionsWithoutRootPivot ==
    \A prefix \in DOMAIN pivot_nodes :
        \A i \in 1..Len(selected_from[prefix]) :
            LET path == selected_from[prefix][i]
            IN  path # <<>> => path[Len(path)] \notin pivot_nodes[prefix]


(***************************************************************************)
(* Streams with lines that are skipped                                     *)
(***************************************************************************)
\* The AS path of the records of each prefix of the stream
StreamPaths ==
    [p \in {"10.0.0.0/23", "10.0.0.0/24"} |->
        IF p = "10.0.0.0/23" THEN <<"X", "Y", "P">> ELSE <<"W", "Y", "P">>]

\* The lines of the stream: for each prefix an element of a RIB, an element
\* of another type, a line cut after its AS path and a line without
\* separator; and an element of a RIB whose prefix is not valid
StreamRecords ==
    UNION {{rib_record(p, StreamPaths[p]),
            [rib_record(p, StreamPaths[p]) EXCEPT !.elem_type = "A"],
            [rib_record(p, StreamPaths[p]) EXCEPT !.fields = 12],
            [rib_record(p, StreamPaths[p]) EXCEPT !.fields = 1]} : p \in DOMAIN StreamPaths}
        \cup {rib_record("", <<"X", "P">>)}

InitRibStream ==
    /\ SchedStart("sequential", <<>>, <<>>, <<0, 1>>, <<0, <<1, 2>> >>)
    /\ StratIdle
    /\ \E lines \in RibAsRelChoices : as_neighbors = read_as_rel(lines)
    /\ bgp_records = StreamRecords
    /\ heuristic \in {0, 1}
    /\ RibStart
    /\ OriginIdle
    /\ DependentIdle

SpecRibStream == InitRibStream /\ [][NextRib]_vars

\* The entries of the bucket were read for one prefix
one_prefix_bucket ==
    Cardinality({key[1] : key \in DOMAIN current_routing_entries_set}) <= 1

\* Every selected entry is stored under the prefix of a record with its AS
\* path (reversed by the valley-free heuristic)
stored_under_own_prefix ==
    \A p \in DOMAIN routing_entries_set :
        \E record \in bgp_records :
            /\ record.prefix = p
            /\ routing_entries_set[p].as_path \in {record.as_path, reverse(record.as_path)}

\* C27: for any stream of records, the malformed ones and the ones that are
\* not elements of a RIB included, the entries of the bucket a heuristic is
\* applied to were all read for one prefix, and the selected entry is stored
\* under that prefix: a skipped record never makes the entries of two
\* prefixes collapse together.
C27_BucketOfOnePrefix == one_prefix_bucket /\ stored_under_own_prefix


(***************************************************************************)
(* parse_ribs_dependent: the tasks of the collectors record the subnets    *)
(* they see in one set                                                     *)
(***************************************************************************)
\* The /24 the records of a collector can give
DependentSubnets == {"10.0.0.0/24", "10.0.1.0/24"}

\* assign_numbers on the sorted collectors
collectors_to_index == [c \in Collectors |-> IF c = "rrc00" THEN 0 ELSE 1]

\* The subnets of a collector, in the order of its records: memory_set keeps
\* the task from recording a prefix twice
SubnetSeqs ==
    {q \in UNION {[1..n -> DependentSubnets] : n \in 0..Cardinality(DependentSubnets)} :
        \A i, j \in 1..Len(q) : i # j => q[i] # q[j]}

\* set := create_safeset (), then pool.Launch_pool (32, collectors, f)
InitDependent ==
    /\ SchedStart("sequential", <<>>, <<>>, <<0, 1>>, <<0, <<1, 2>> >>)
    /\ StratIdle
    /\ RibIdle
    /\ OriginIdle
    /\ as_neighbors = <<>>
    /\ collector_subnets \in [Collectors -> SubnetSeqs]
    /\ dependent_set = <<>>
    /\ dependent_mux = NoOwner
    /\ dependent_pc = [c \in Collectors |-> "parsing"]
    /\ dependent_next = [c \in Collectors |-> 1]
    /\ dependent_c = [c \in Collectors |-> [c |-> 0, ok |-> FALSE]]
    /\ dependent_pool = "pool"

notDependent == <<schedVars, as_neighbors, stratVars, ribVars, originVars>>

\* The subnet add_to_set is called for
current_subnet(c) == collector_subnets[c][dependent_next[c]]

\* a | b, bit by bit from the lowest one
RECURSIVE BitOr(_, _)
BitOr(a, b) ==
    IF a = 0 /\ b = 0 THEN 0
    ELSE 2 * BitOr(a \div 2, b \div 2) + (IF a % 2 = 1 \/ b % 2 = 1 THEN 1 ELSE 0)

\* uint64 (1<<index): the index is under 64, parse_ribs_dependent takes no
\* more than 64 collectors
bit(index) == IntPow(2, index)

\* set.get (subnet), with the mutex held: v, ok = set.set[key]
set_get(c) ==
    IF current_subnet(c) \in DOMAIN dependent_set
    THEN [c |-> dependent_set[current_subnet(c)], ok |-> TRUE]
    ELSE [c |-> 0, ok |-> FALSE]

\* add_to_set: c, ok := set.get (subnet); the mutex is taken
get_Lock(c) ==
    /\ dependent_pc[c] = "parsing"
    /\ dependent_next[c] <= Len(collector_subnets[c])
    /\ dependent_mux = NoOwner
    /\ dependent_mux' = c
    /\ dependent_pc' = [dependent_pc EXCEPT ![c] = "get"]
    /\ UNCHANGED <<notDependent, collector_subnets, dependent_set, dependent_next,
                   dependent_c, dependent_pool>>

\* set.get reads the value of the subnet, releases the mutex and returns
get_Unlock(c) ==
    /\ dependent_pc[c] = "get"
    /\ dependent_c' = [dependent_c EXCEPT ![c] = set_get(c)]
    /\ dependent_mux' = NoOwner
    /\ dependent_pc' = [dependent_pc EXCEPT ![c] = "got"]
    /\ UNCHANGED <<notDependent, collector_subnets, dependent_set, dependent_next,
                   dependent_pool>>

\* set.add (subnet, ...): the mutex is taken again
add_Lock(c) ==
    /\ dependent_pc[c] = "got"
    /\ dependent_mux = NoOwner
    /\ dependent_mux' = c
    /\ dependent_pc' = [dependent_pc EXCEPT ![c] = "add"]
    /\ UNCHANGED <<notDependent, collector_subnets, dependent_set, dependent_next,
                   dependent_c, dependent_pool>>

\* set.add stores current_state | uint64 (1<<index), or uint64 (1<<index)
\* when get found no value, releases the mutex, and the task goes on
add_Unlock(c) ==
    /\ dependent_pc[c] = "add"
    /\ dependent_set' =
          MapPut(dependent_set, current_subnet(c),
                 IF dependent_c[c].ok
                 THEN BitOr(dependent_c[c].c, bit(collectors_to_index[c]))
                 ELSE bit(collectors_to_index[c]))
    /\ dependent_mux' = NoOwner
    /\ dependent_next' = [dependent_next EXCEPT ![c] = @ + 1]
    /\ dependent_pc' = [dependent_pc EXCEPT ![c] = "parsing"]
    /\ UNCHANGED <<notDependent, collector_subnets, dependent_c, dependent_pool>>

\* The records of the collector are all read: the task ends
dependent_task_ends(c) ==
    /\ dependent_pc[c] = "parsing"
    /\ dependent_next[c] > Len(collector_subnets[c])
    /\ dependent_pc' = [dependent_pc EXCEPT ![c] = "ended"]
    /\ UNCHANGED <<notDependent, collector_subnets, dependent_set, dependent_mux,
                   dependent_next, dependent_c, dependent_pool>>

\* pool.Launch_pool returns when every task has ended; the set is written
dependent_pool_returns ==
    /\ dependent_pool = "pool"
    /\ \A c \in Collectors : dependent_pc[c] = "ended"
    /\ dependent_pool' = "writing"
    /\ UNCHANGED <<notDependent, collector_subnets, dependent_set, dependent_mux,
                   dependent_pc, dependent_next, dependent_c>>

NextDependent ==
    \/ \E c \in Collectors : get_Lock(c)
    \/ \E c \in Collectors : get_Unlock(c)
    \/ \E c \in Collectors : add_Lock(c)
    \/ \E c \in Collectors : add_Unlock(c)
    \/ \E c \in Collectors : dependent_task_ends(c)
    \/ dependent_pool_returns

SpecDependent == InitDependent /\ [][NextDependent]_vars

\* The collectors whose task has recorded the subnet
recorded_by(subnet) ==
    {c \in Collectors :
        \E i \in 1..(dependent_next[c] - 1) : collector_subnets[c][i] = subnet}

\* The bit of a collector is set in a value
has_bit(value, index) == (value \div IntPow(2, index)) % 2 = 1

\* generate_print_collectors: the subnet is written as dependent
dependent(subnet) ==
    /\ subnet \in DOMAIN dependent_set
    /\ \A c \in Collectors : has_bit(dependent_set[subnet], collectors_to_index[c])

\* C28: when several tasks record the same subnet through add_to_set, the
\* value finally stored for the subnet has the bit of every collector that
\* recorded it, under every interleaving: a prefix seen by all collectors is
\* written as dependent.
C28_NoCollectorBitLost ==
    dependent_pool = "writing" =>
        \A subnet \in DependentSubnets :
            /\ \A c \in recorded_by(subnet) :
                  /\ subnet \in DOMAIN dependent_set
                  /\ has_bit(dependent_set[subnet], collectors_to_index[c])
            /\ recorded_by(subnet) = Collectors => dependent(subnet)

\* The same when the tasks record different subnets
DisjointSubnetsKeepBits ==
    (dependent_pool = "writing"
        /\ \A subnet \in DependentSubnets : Cardinality(recorded_by(subnet)) <= 1)
    => \A subnet \in DependentSubnets :
          \A c \in recorded_by(subnet) :
              /\ subnet \in DOMAIN dependent_set
              /\ has_bit(dependent_set[subnet], collectors_to_index[c])

\* Both collectors recorded a subnet and the set has both bits
BothBitsStored ==
    /\ dependent_pool = "writing"
    /\ \E subnet \in DependentSubnets :
          recorded_by(subnet) = Collectors /\ dependent(subnet)


(***************************************************************************)
(* The AS at position 0 of the schedulers                                  *)
(***************************************************************************)
\* The ases_status the schedulers build from the as_limits file of the
\* strategy step
status_of_file == build_status(as_limits_file, 1, 0)

\* The ASes the greedy scheduler and the cone weight treat as the internals
position_0 == {as \in Range(status_of_file) : as.position = 0}

\* C29: in the greedy scheduler and in the cone-based weight function, the AS
\* that gets the treatment of position 0 is always the internals group of the
\* AS of interest: when the internals group of the strategy is empty, or the
\* strategy has none, no other AS is given position 0.
C29_Position0IsInternals ==
    st_pc = "returned" => \A as \in position_0 : as.asn = as_interest

\* The same for the strategies whose first limit is the one of an internals
\* group that is not empty
Position0IsInternalsWhenFirst ==
    (st_pc = "returned" /\ as_limits # <<>>
        /\ as_limits[1].asn = as_interest /\ as_limits[1].limit > 0)
    => /\ position_0 # {}
       /\ \A as \in position_0 : as.asn = as_interest

\* A strategy whose internals group is empty has returned, and the first AS
\* of its file is another AS
EmptyInternalsWritten ==
    /\ st_pc = "returned"
    /\ as_limits # <<>>
    /\ as_limits[1] = AS_limit(as_interest, 0)
    /\ \E as \in position_0 : as.asn # as_interest


(***************************************************************************)
(* Termination of the parser goroutine                                     *)
(***************************************************************************)
\* The loop over the lines of the output ends: the output of the command is
\* finite (or the command did not start), and the goroutine goes on to its
\* send on the done channel. With NextRib this is the step of end_of_table.
scanner_ends ==
    /\ rib_pc = "scanning"
    /\ task_pc # "start"
    /\ rib_pc' = "sending"

\* The task and its goroutine are both scheduled: the command is started,
\* the scan of its output ends, a send that has its receiver is made, and
\* cmd.Wait returns
SpecRibFair ==
    /\ InitRibTie
    /\ [][NextRib]_vars
    /\ WF_vars(cmd_Start)
    /\ WF_rib_pc(scanner_ends)
    /\ WF_vars(done_channel)
    /\ WF_vars(cmd_Wait)

\* C30: in every execution of a RIB-parsing task the parser goroutine
\* eventually terminates: it never stays blocked forever on the send of the
\* done signal, also when the start of the command fails and start_and_wait
\* returns without receiving from the done channel.
C30_ParserTerminates == <>(rib_pc = "done")

\* The goroutine of a task whose command has started does terminate
StartedParserTerminates == (task_pc = "waiting") ~> (rib_pc = "done")

\* The goroutine always comes to its send on the done channel
ParserReachesSend == <>(rib_pc \in {"sending", "done"})

\* The goroutine is at its send and the task has returned without receiving:
\* the command did not start, and no step is left to either of them
ParserBlockedOnDone ==
    /\ rib_pc = "sending"
    /\ task_pc = "returned"
    /\ nb_records = 0
    /\ forwarding_table = <<>>

=============================================================================
